---- MODULE Spec2Model ----
(***************************************************************************)
(* A model of the call session core of call-me:                            *)
(*   server/src/phone-call.ts            CallManager                       *)
(*   server/src/providers/stt-openai-realtime.ts                           *)
(*                                       OpenAIRealtimeSTTSession          *)
(*   server/src/ngrok.ts                 the tunnel and its reconnect      *)
(* Every async operation of CallManager is a task that advances from one   *)
(* await to the next; webhooks, websocket upgrades, websocket frames, STT  *)
(* events and timers are separate actions that interleave with the tasks.  *)
(***************************************************************************)
EXTENDS Integers, Sequences, FiniteSets, TLC

\* ------------------------------------------------------------------ bounds
\* What one behaviour may create, counted together: calls (one per
\* initiateCall), operations invoked (initiateCall, continueCall, speakOnly,
\* endCall) and media websockets accepted. Webhooks, websocket frames, STT
\* events and timers create none of these and are not counted. A
\* specification may bound the number of calls further.
MaxObjects == 5

VARIABLES
    budget,                 \* what this behaviour may create: objects, calls
    isNgrokFreeTier,        \* config.publicUrl host ends with .ngrok-free.dev
    telnyxPublicKey,        \* config.providerConfig.telnyxPublicKey is set
    servers,                \* httpServer and wss, and what shutdown() began
    ngrok,                  \* the module state of ngrok.ts and its tasks
    probe,                  \* the input and the result of a function applied
    currentCallId,          \* CallManager.currentCallId
    activeCalls,            \* keys of CallManager.activeCalls, insertion order
    callControlIdToCallId,  \* CallManager.callControlIdToCallId
    wsTokenToCallId,        \* CallManager.wsTokenToCallId
    state,                  \* the CallState objects, by callId
    stt,                    \* the STT session of each call, by callId
    sockets,                \* accepted media websockets, in order of upgrade
    tasks,                  \* the invoked operations, in order of invocation
    hangupRequests          \* provider.hangup requests issued, per callId

vars ==
    << budget, isNgrokFreeTier, telnyxPublicKey, servers, ngrok, probe, currentCallId,
       activeCalls, callControlIdToCallId, wsTokenToCallId, state, stt, sockets, tasks, hangupRequests >>

\* ------------------------------------------------------------- primitives
\* A Map with no entries.
EmptyMap == [k \in {} |-> 0]

\* Map.set(k, v)
MapSet(m, k, v) == (k :> v) @@ m

\* Map.delete(k)
MapDelete(m, k) == [x \in DOMAIN m \ {k} |-> m[x]]

\* Map.get(k), with 0 for undefined
MapGet(m, k) == IF k \in DOMAIN m THEN m[k] ELSE 0

\* The elements of a sequence
Range(s) == { s[i] : i \in DOMAIN s }

\* activeCalls.delete(callId)
SeqDelete(s, x) == SelectSeq(s, LAMBDA y : y # x)

\* null for callControlId, ws, streamSid, onTranscriptCallback
Null == 0

\* generateWebSocketToken(): a fresh random token per call; the token of call
\* c is written c.
generateWebSocketToken(c) == c

\* url.searchParams.get('token') of an upgrade that carries no token
NoToken == 0

\* A token that no call was given.
WrongToken == MaxObjects + 1

\* The provider's identifier of the outbound call placed for call c.
ProviderCallId(c) == c

\* A call_control_id / CallSid the provider never issued to this server.
UnknownProviderCallId == MaxObjects + 1

\* callId of an upgrade accepted with no call to attach to: `pending-<time>`
PlaceholderCallId == MaxObjects + 1

\* validateWebSocketToken(expected, received): constant-time equality
validateWebSocketToken(expected, received) == expected = received

\* The CallState built by initiateCall.
NewCallState(c) ==
    [ callId |-> c,
      callControlId |-> Null,
      ws |-> Null,
      streamSid |-> Null,
      streamingReady |-> FALSE,
      wsToken |-> generateWebSocketToken(c),
      conversationHistory |-> << >>,
      hungUp |-> FALSE ]

\* OpenAIRealtimeSTTSession.maxReconnectAttempts
maxReconnectAttempts == 5

reconnectDelayMs == 1000

\* ---------------------------------------------------------------- ngrok.ts
ngrokMaxReconnectAttempts == 10

baseReconnectDelayMs == 2000

\* The public URLs the tunnel service may hand out.
NgrokUrls == {1, 2}

\* The module state of ngrok.ts when it is loaded. listener is "null", "up"
\* (a listener that reports its url) or "lost" (a listener whose url() is
\* empty or throws); currentPort tells whether startNgrok has stored the
\* port; start, reconnect and stop are the positions of startNgrok,
\* attemptReconnect and stopNgrok at their awaits; monitors counts the
\* running health-check intervals; lastReconnect records the last
\* successful reconnect: the url before it, the new url, and whether the
\* URL-changed warning was logged.
NgrokLoaded ==
    [ listener |-> "null",
      currentPort |-> Null,
      currentUrl |-> Null,
      intentionallyClosed |-> FALSE,
      reconnectAttempts |-> 0,
      start |-> "idle",
      reconnect |-> "idle",
      delay |-> 0,
      stop |-> "idle",
      monitors |-> 0,
      lastReconnect |-> << >> ]

\* A session as createSession() returns it. timers holds the tasks whose
\* waitForTranscript timer is pending; reconnect is where the session's
\* websocket and attemptReconnect stand ("idle": nothing pending, "backoff":
\* attemptReconnect sleeps for `delay` ms, "connecting": in doConnect,
\* "closing": close() closed the open websocket and its 'close' event is
\* due); closeCalls counts the calls of close().
NewSession ==
    [ connected |-> FALSE,
      closed |-> FALSE,
      reconnectAttempts |-> 0,
      reconnect |-> "idle",
      delay |-> 0,
      onTranscriptCallback |-> Null,
      timers |-> {},
      closeCalls |-> 0 ]

\* The delay of attemptReconnect for the attempt numbered `attempts`.
ReconnectDelay(attempts) == reconnectDelayMs * 2 ^ (attempts - 1)

\* SessionSocketClosed without the test of `closed`.
SessionSocketClosedReconnects(s) ==
    IF s.reconnectAttempts >= maxReconnectAttempts
    THEN [s EXCEPT !.connected = FALSE, !.reconnect = "idle"]
    ELSE [s EXCEPT !.connected = FALSE, !.reconnect = "backoff",
                   !.reconnectAttempts = @ + 1,
                   !.delay = ReconnectDelay(s.reconnectAttempts + 1)]

\* SessionSocketClosed without the test of maxReconnectAttempts.
SessionSocketClosedUncapped(s) ==
    IF s.closed
    THEN [s EXCEPT !.connected = FALSE, !.reconnect = "idle"]
    ELSE [s EXCEPT !.connected = FALSE, !.reconnect = "backoff",
                   !.reconnectAttempts = @ + 1,
                   !.delay = ReconnectDelay(s.reconnectAttempts + 1)]

\* The 'close' handler of the session's websocket followed by
\* attemptReconnect up to its backoff delay.
SessionSocketClosed(s) ==
    IF s.closed \/ s.reconnectAttempts >= maxReconnectAttempts
    THEN [s EXCEPT !.connected = FALSE, !.reconnect = "idle"]
    ELSE [s EXCEPT !.connected = FALSE, !.reconnect = "backoff",
                   !.reconnectAttempts = @ + 1,
                   !.delay = ReconnectDelay(s.reconnectAttempts + 1)]

\* OpenAIRealtimeSTTSession.close(): an open websocket is closed, which
\* makes its 'close' event due.
SessionClose(s) ==
    [s EXCEPT !.closed = TRUE, !.connected = FALSE, !.closeCalls = @ + 1,
              !.reconnect = IF s.connected THEN "closing" ELSE @]

\* OpenAIRealtimeSTTSession.waitForTranscript(), called by task w: the new
\* callback replaces whatever was registered and a timer is started.
SessionWait(s, w) ==
    [s EXCEPT !.onTranscriptCallback = w, !.timers = @ \cup {w}]

\* ws.readyState === WebSocket.OPEN for state.ws
WsOpen(st) == st.ws # Null /\ sockets[st.ws].open

\* state.ws?.close(), as the new sockets
CloseWs(st) ==
    IF st.ws # Null THEN [sockets EXCEPT ![st.ws].open = FALSE] ELSE sockets

IsActive(c) == c \in Range(activeCalls)

\* PushTurn with the two pushes in the other order.
PushTurnUserFirst(h) == h \o << "user", "claude" >>

\* The pair of entries a completed turn pushes.
PushTurn(h) == h \o << "claude", "user" >>

\* The entry speakOnly pushes.
PushSpoken(h) == Append(h, "claude")

\* callIds the caller of the tools holds: those initiateCall has returned.
KnownCallIds ==
    { tasks[t].callId : t \in { u \in DOMAIN tasks :
          tasks[u].kind = "initiate" /\ tasks[u].result = "ok" } }

TaskAt(t, kinds, pc) ==
    /\ t \in DOMAIN tasks
    /\ tasks[t].kind \in kinds
    /\ tasks[t].pc = pc

\* The task record of an operation that has returned or thrown.
Finished(task, result) == [task EXCEPT !.pc = "done", !.result = result]

\* Whether the behaviour may create n more objects.
Room(n) == currentCallId + Len(tasks) + Len(sockets) + n <= budget.objects

\* ------------------------------------------------------------------- Init
\* httpServer and wss as startServer() leaves them; goodbyes are the
\* endCall operations shutdown() has invoked.
ServersListening ==
    [ httpServer |-> "listening", wss |-> "open", goodbyes |-> {} ]

\* The CallManager after construction and startServer(), with no call yet.
InitManager(objects, calls, hosts) ==
    /\ budget = [objects |-> objects, calls |-> calls]
    /\ isNgrokFreeTier \in hosts
    /\ telnyxPublicKey = TRUE
    /\ servers = ServersListening
    /\ ngrok = NgrokLoaded
    /\ currentCallId = 0
    /\ activeCalls = << >>
    /\ callControlIdToCallId = EmptyMap
    /\ wsTokenToCallId = EmptyMap
    /\ state = EmptyMap
    /\ stt = EmptyMap
    /\ sockets = << >>
    /\ tasks = << >>
    /\ hangupRequests = [c \in 1..objects |-> 0]

\* No function under examination.
NoProbe == << >>

InitWith(objects, calls, hosts) ==
    /\ InitManager(objects, calls, hosts)
    /\ probe = NoProbe

Init == InitWith(MaxObjects, MaxObjects, {FALSE})

\* ----------------------------------------------------------- initiateCall
\* initiateCall up to its first await: the callId is drawn and the STT
\* session is created; connect() is pending.
InitiateCall ==
    /\ Room(2)
    /\ currentCallId < budget.calls
    /\ LET c == currentCallId + 1 IN
        /\ currentCallId' = c
        /\ stt' = MapSet(stt, c, NewSession)
        /\ tasks' = Append(tasks, [kind |-> "initiate", callId |-> c,
                                   pc |-> "connect", result |-> "pending",
                                   hungUpBefore |-> FALSE])
    /\ UNCHANGED << budget, isNgrokFreeTier, telnyxPublicKey, servers, ngrok, probe, activeCalls,
                    callControlIdToCallId, wsTokenToCallId, state, sockets, hangupRequests >>

\* connect() resolved: the call state is built and put into activeCalls, and
\* the place-call request is sent to the provider.
InitiateSttConnected(t) ==
    /\ TaskAt(t, {"initiate"}, "connect")
    /\ LET c == tasks[t].callId IN
        /\ stt' = [stt EXCEPT ![c].connected = TRUE,
                              ![c].reconnectAttempts = 0]
        /\ state' = MapSet(state, c, NewCallState(c))
        /\ activeCalls' = Append(activeCalls, c)
        /\ tasks' = [tasks EXCEPT ![t].pc = "place"]
    /\ UNCHANGED << budget, isNgrokFreeTier, telnyxPublicKey, servers, ngrok, probe, currentCallId,
                    callControlIdToCallId, wsTokenToCallId, sockets, hangupRequests >>

\* connect() rejected (the websocket failed and closed): initiateCall throws
\* before any call state exists. Nothing calls close() on the session.
InitiateSttConnectFailed(t) ==
    /\ TaskAt(t, {"initiate"}, "connect")
    /\ stt' = [stt EXCEPT ![tasks[t].callId] = SessionSocketClosed(@)]
    /\ tasks' = [tasks EXCEPT ![t] = Finished(@, "stt_connect_failed")]
    /\ UNCHANGED << budget, isNgrokFreeTier, telnyxPublicKey, servers, ngrok, probe, currentCallId, activeCalls,
                    callControlIdToCallId, wsTokenToCallId, state, sockets,
                    hangupRequests >>

\* The catch block of initiateCall: state.sttSession?.close() and
\* activeCalls.delete(callId), then the error is rethrown. `session` is the
\* call's session as the failing step left it.
InitiateCatch(t, session, result) ==
    LET c == tasks[t].callId IN
    /\ stt' = [stt EXCEPT ![c] = SessionClose(session)]
    /\ activeCalls' = SeqDelete(activeCalls, c)
    /\ tasks' = [tasks EXCEPT ![t] = Finished(@, result)]

\* generateTTSAudio(message) is called and runs on its own until ttsPromise
\* is awaited. The synthesis is followed only where the initial message is
\* under examination.
generateTTSAudioStarted(p, c) ==
    IF DOMAIN p = {} THEN p
    ELSE IF "tts" \in DOMAIN p[c] THEN [p EXCEPT ![c].tts = "running"]
    ELSE p

\* The provider answered the place-call request: callControlId is stored,
\* both indices are registered and TTS generation of the message starts.
InitiatePlaced(t) ==
    /\ TaskAt(t, {"initiate"}, "place")
    /\ LET c == tasks[t].callId IN
        /\ state' = [state EXCEPT ![c].callControlId = ProviderCallId(c)]
        /\ callControlIdToCallId' =
               MapSet(callControlIdToCallId, ProviderCallId(c), c)
        /\ wsTokenToCallId' = MapSet(wsTokenToCallId, state[c].wsToken, c)
        /\ tasks' = [tasks EXCEPT ![t].pc = "attach"]
    /\ probe' = generateTTSAudioStarted(probe, tasks[t].callId)
    /\ UNCHANGED << budget, isNgrokFreeTier, telnyxPublicKey, servers, ngrok, currentCallId, activeCalls, stt,
                    sockets, hangupRequests >>

\* The place-call request failed (non-2xx): the catch block runs.
InitiatePlaceFailed(t) ==
    /\ TaskAt(t, {"initiate"}, "place")
    /\ InitiateCatch(t, stt[tasks[t].callId], "provider_error")
    /\ UNCHANGED << budget, isNgrokFreeTier, telnyxPublicKey, servers, ngrok, probe, currentCallId,
                    callControlIdToCallId, wsTokenToCallId, state, sockets, hangupRequests >>

\* A variant of ConnectionReady that looks at the socket only.
ConnectionReadySocketOnly(c) == IsActive(c) /\ WsOpen(state[c])

\* The condition waitForConnection polls for.
ConnectionReady(c) ==
    /\ IsActive(c)
    /\ WsOpen(state[c])
    /\ (state[c].streamSid # Null \/ state[c].streamingReady)

\* A poll of waitForConnection found the call attached: initiateCall goes on
\* to await ttsPromise and to send the audio (sendPreGeneratedAudio).
InitiateAttached(t) ==
    /\ TaskAt(t, {"initiate"}, "attach")
    /\ ConnectionReady(tasks[t].callId)
    /\ tasks' = [tasks EXCEPT ![t].pc = "speak"]
    /\ UNCHANGED << budget, isNgrokFreeTier, telnyxPublicKey, servers, ngrok, probe, currentCallId, activeCalls,
                    callControlIdToCallId, wsTokenToCallId, state, stt,
                    sockets, hangupRequests >>

\* No poll within the 15 s found the call attached: 'WebSocket connection
\* timeout' is thrown and the catch block runs.
InitiateAttachTimeout(t) ==
    /\ TaskAt(t, {"initiate"}, "attach")
    /\ ~ConnectionReady(tasks[t].callId)
    /\ InitiateCatch(t, stt[tasks[t].callId], "attach_timeout")
    /\ UNCHANGED << budget, isNgrokFreeTier, telnyxPublicKey, servers, ngrok, probe, currentCallId,
                    callControlIdToCallId, wsTokenToCallId, state, sockets, hangupRequests >>

\* ttsPromise rejected (TTS failure): the catch block runs.
InitiateAudioFailed(t) ==
    /\ TaskAt(t, {"initiate"}, "speak")
    /\ InitiateCatch(t, stt[tasks[t].callId], "tts_failed")
    /\ UNCHANGED << budget, isNgrokFreeTier, telnyxPublicKey, servers, ngrok, probe, currentCallId,
                    callControlIdToCallId, wsTokenToCallId, state, sockets, hangupRequests >>

\* ------------------------------------------------------------------ listen
\* How a listen that task t is suspended in ends. `session` is the call's
\* session as the settling event left it. A transcript makes the operation
\* push the turn and return; an error propagates: through the catch block in
\* initiateCall, straight to the caller in continueCall.
ListenSettled(t, session, outcome) ==
    LET c == tasks[t].callId IN
    IF outcome = "ok"
    THEN /\ state' = [state EXCEPT
                 ![c].conversationHistory = PushTurn(@)]
         /\ stt' = [stt EXCEPT ![c] = session]
         /\ tasks' = [tasks EXCEPT ![t] = Finished(@, "ok")]
         /\ UNCHANGED activeCalls
    ELSE IF tasks[t].kind = "initiate"
    THEN /\ InitiateCatch(t, session, outcome)
         /\ UNCHANGED state
    ELSE /\ stt' = [stt EXCEPT ![c] = session]
         /\ tasks' = [tasks EXCEPT ![t] = Finished(@, outcome)]
         /\ UNCHANGED << state, activeCalls >>

\* AfterTranscript without the hungUp test of listen().
AfterTranscriptIgnoresHangup(st) == "ok"

\* The outcome of listen() once the transcript promise has won the race:
\* `if (state.hungUp) throw`, else the transcript is returned.
AfterTranscript(st) == IF st.hungUp THEN "hung_up" ELSE "ok"

\* SessionSettle without `this.onTranscriptCallback = null`.
SessionSettleKeepsCallback(s, w) == [s EXCEPT !.timers = @ \ {w}]

\* The session after its registered callback ran for waiter w, or after w's
\* timer fired: both set onTranscriptCallback to null and retire w's timer.
SessionSettle(s, w) ==
    [s EXCEPT !.onTranscriptCallback = Null, !.timers = @ \ {w}]

\* handleEvent, '...input_audio_transcription.completed' with a non-empty
\* transcript while a callback is registered: the callback clears its timer
\* and itself and resolves its promise. If its task is still in the race of
\* listen(), listen continues in the same turn of the event loop.
TranscriptCompleted(c) ==
    /\ c \in DOMAIN stt
    /\ stt[c].connected
    /\ stt[c].onTranscriptCallback # Null
    /\ LET w == stt[c].onTranscriptCallback
           session == SessionSettle(stt[c], w) IN
        IF tasks[w].pc = "listen"
        THEN ListenSettled(w, session, AfterTranscript(state[c]))
        ELSE /\ stt' = [stt EXCEPT ![c] = session]
             /\ UNCHANGED << state, tasks, activeCalls >>
    /\ UNCHANGED << budget, isNgrokFreeTier, telnyxPublicKey, servers, ngrok, probe, currentCallId,
                    callControlIdToCallId, wsTokenToCallId, sockets, hangupRequests >>

\* TranscriptTimerFired with a timer that only runs while the session is
\* connected.
TranscriptTimerFiredWhileConnected(w) ==
    /\ w \in DOMAIN tasks
    /\ tasks[w].callId \in DOMAIN stt
    /\ w \in stt[tasks[w].callId].timers
    /\ stt[tasks[w].callId].connected
    /\ LET c == tasks[w].callId
           session == SessionSettle(stt[c], w) IN
        IF tasks[w].pc = "listen"
        THEN ListenSettled(w, session, "transcript_timeout")
        ELSE /\ stt' = [stt EXCEPT ![c] = session]
             /\ UNCHANGED << state, tasks, activeCalls >>
    /\ UNCHANGED << budget, isNgrokFreeTier, telnyxPublicKey, servers, ngrok, probe, currentCallId,
                    callControlIdToCallId, wsTokenToCallId, sockets, hangupRequests >>

\* The setTimeout of task w's waitForTranscript fired: it sets
\* onTranscriptCallback to null, whoever registered it, and rejects w's
\* promise with 'Transcript timeout'.
TranscriptTimerFired(w) ==
    /\ w \in DOMAIN tasks
    /\ tasks[w].callId \in DOMAIN stt
    /\ w \in stt[tasks[w].callId].timers
    /\ LET c == tasks[w].callId
           session == SessionSettle(stt[c], w) IN
        IF tasks[w].pc = "listen"
        THEN ListenSettled(w, session, "transcript_timeout")
        ELSE /\ stt' = [stt EXCEPT ![c] = session]
             /\ UNCHANGED << state, tasks, activeCalls >>
    /\ UNCHANGED << budget, isNgrokFreeTier, telnyxPublicKey, servers, ngrok, probe, currentCallId,
                    callControlIdToCallId, wsTokenToCallId, sockets, hangupRequests >>

\* A tick of waitForHangup's interval found state.hungUp: the race is lost
\* to 'Call was hung up by user'. The transcript promise stays pending, with
\* its callback and its timer.
HangupPollFired(t) ==
    /\ TaskAt(t, {"initiate", "continue"}, "listen")
    /\ state[tasks[t].callId].hungUp
    /\ ListenSettled(t, stt[tasks[t].callId], "hung_up")
    /\ UNCHANGED << budget, isNgrokFreeTier, telnyxPublicKey, servers, ngrok, probe, currentCallId,
                    callControlIdToCallId, wsTokenToCallId, sockets, hangupRequests >>

\* A variant of ListenStarted that records the agent's message as soon as it
\* has been spoken.
ListenStartedRecordsSpeech(t) ==
    /\ TaskAt(t, {"initiate", "continue"}, "speak")
    /\ stt' = [stt EXCEPT ![tasks[t].callId] = SessionWait(@, t)]
    /\ tasks' = [tasks EXCEPT
           ![t].pc = "listen",
           ![t].hungUpBefore = state[tasks[t].callId].hungUp]
    /\ state' = [state EXCEPT
           ![tasks[t].callId].conversationHistory = Append(@, "claude")]
    /\ UNCHANGED << budget, isNgrokFreeTier, telnyxPublicKey, servers, ngrok, probe, currentCallId,
                    activeCalls, callControlIdToCallId, wsTokenToCallId,
                    sockets, hangupRequests >>

\* A variant of ListenStarted for a session that keeps the transcripts
\* nobody awaited: a listen that finds one returns it at once.
ListenStartedTakesUnheard(t) ==
    /\ TaskAt(t, {"initiate", "continue"}, "speak")
    /\ IF /\ DOMAIN probe # {}
          /\ "unheard" \in DOMAIN probe[tasks[t].callId]
          /\ probe[tasks[t].callId].unheard > 0
       THEN /\ probe' = [probe EXCEPT ![tasks[t].callId].unheard = @ - 1]
            /\ state' = [state EXCEPT
                   ![tasks[t].callId].conversationHistory = PushTurn(@)]
            /\ tasks' = [tasks EXCEPT ![t] = Finished(@, "ok")]
            /\ UNCHANGED stt
       ELSE /\ stt' = [stt EXCEPT ![tasks[t].callId] = SessionWait(@, t)]
            /\ tasks' = [tasks EXCEPT
                   ![t].pc = "listen",
                   ![t].hungUpBefore = state[tasks[t].callId].hungUp]
            /\ UNCHANGED << probe, state >>
    /\ UNCHANGED << budget, isNgrokFreeTier, telnyxPublicKey, servers, ngrok,
                    currentCallId, activeCalls, callControlIdToCallId,
                    wsTokenToCallId, sockets, hangupRequests >>

\* speak has returned and listen() starts: waitForTranscript registers the
\* callback and the timer, waitForHangup starts polling. In initiateCall the
\* speak is sendPreGeneratedAudio, in continueCall it is speak(). The task
\* keeps what state.hungUp was when its listen started.
ListenStarted(t) ==
    /\ TaskAt(t, {"initiate", "continue"}, "speak")
    /\ stt' = [stt EXCEPT ![tasks[t].callId] = SessionWait(@, t)]
    /\ tasks' = [tasks EXCEPT
           ![t].pc = "listen",
           ![t].hungUpBefore = state[tasks[t].callId].hungUp]
    /\ UNCHANGED << budget, isNgrokFreeTier, telnyxPublicKey, servers, ngrok, probe, currentCallId, activeCalls,
                    callControlIdToCallId, wsTokenToCallId, state, sockets, hangupRequests >>

\* ------------------------------------------- continueCall, speakOnly, endCall
\* A variant of Invoked in which the operation listens before it speaks.
InvokedListening(kind, c) ==
    IF IsActive(c)
    THEN [kind |-> kind, callId |-> c, pc |-> "listen", result |-> "pending",
          hungUpBefore |-> FALSE]
    ELSE [kind |-> kind, callId |-> c, pc |-> "done", result |-> "not_found",
          hungUpBefore |-> FALSE]

\* The first statements of continueCall, speakOnly and endCall: the lookup in
\* activeCalls throws 'No active call', else speak() starts.
Invoked(kind, c) ==
    IF IsActive(c)
    THEN [kind |-> kind, callId |-> c, pc |-> "speak", result |-> "pending",
          hungUpBefore |-> FALSE]
    ELSE [kind |-> kind, callId |-> c, pc |-> "done", result |-> "not_found",
          hungUpBefore |-> FALSE]

ToolCall(kind, c) ==
    /\ Room(1)
    /\ c \in KnownCallIds
    /\ tasks' = Append(tasks, Invoked(kind, c))
    /\ UNCHANGED << budget, isNgrokFreeTier, telnyxPublicKey, servers, ngrok, probe, currentCallId, activeCalls,
                    callControlIdToCallId, wsTokenToCallId, state, stt,
                    sockets, hangupRequests >>

ContinueCall(c) == ToolCall("continue", c)

SpeakOnly(c) == ToolCall("speakOnly", c)

EndCall(c) == ToolCall("end", c)

\* speak() threw (the TTS request failed): continueCall, speakOnly and endCall
\* have no handler, the error reaches the caller.
SpeakFailed(t) ==
    /\ TaskAt(t, {"continue", "speakOnly", "end"}, "speak")
    /\ tasks' = [tasks EXCEPT ![t] = Finished(@, "tts_failed")]
    /\ UNCHANGED << budget, isNgrokFreeTier, telnyxPublicKey, servers, ngrok, probe, currentCallId, activeCalls,
                    callControlIdToCallId, wsTokenToCallId, state, stt,
                    sockets, hangupRequests >>

\* speakOnly after speak(): the agent entry is pushed.
SpeakOnlySpoken(t) ==
    /\ TaskAt(t, {"speakOnly"}, "speak")
    /\ state' = [state EXCEPT
           ![tasks[t].callId].conversationHistory = PushSpoken(@)]
    /\ tasks' = [tasks EXCEPT ![t] = Finished(@, "ok")]
    /\ UNCHANGED << budget, isNgrokFreeTier, telnyxPublicKey, servers, ngrok, probe, currentCallId, activeCalls,
                    callControlIdToCallId, wsTokenToCallId, stt, sockets, hangupRequests >>

\* EndCleanup without activeCalls.delete(callId).
EndCleanupKeepsCall(t) ==
    LET c == tasks[t].callId
        st == state[c] IN
    /\ stt' = [stt EXCEPT ![c] = SessionClose(@)]
    /\ sockets' = CloseWs(st)
    /\ state' = [state EXCEPT ![c].hungUp = TRUE]
    /\ wsTokenToCallId' = MapDelete(wsTokenToCallId, st.wsToken)
    /\ callControlIdToCallId' =
           IF st.callControlId # Null
           THEN MapDelete(callControlIdToCallId, st.callControlId)
           ELSE callControlIdToCallId
    /\ activeCalls' = activeCalls
    /\ tasks' = [tasks EXCEPT ![t] = Finished(@, "ok")]

\* The rest of endCall after the provider hangup: STT and socket are closed,
\* hungUp is set and the call leaves the three indices.
EndCleanup(t) ==
    LET c == tasks[t].callId
        st == state[c] IN
    /\ stt' = [stt EXCEPT ![c] = SessionClose(@)]
    /\ sockets' = CloseWs(st)
    /\ state' = [state EXCEPT ![c].hungUp = TRUE]
    /\ wsTokenToCallId' = MapDelete(wsTokenToCallId, st.wsToken)
    /\ callControlIdToCallId' =
           IF st.callControlId # Null
           THEN MapDelete(callControlIdToCallId, st.callControlId)
           ELSE callControlIdToCallId
    /\ activeCalls' = SeqDelete(activeCalls, c)
    /\ tasks' = [tasks EXCEPT ![t] = Finished(@, "ok")]

\* endCall after speak() and the 2 s playback wait: with a callControlId the
\* hangup request is sent and awaited, without one the cleanup follows at
\* once.
EndSpoken(t) ==
    /\ TaskAt(t, {"end"}, "speak")
    /\ LET c == tasks[t].callId IN
        IF state[c].callControlId # Null
        THEN /\ hangupRequests' = [hangupRequests EXCEPT ![c] = @ + 1]
             /\ tasks' = [tasks EXCEPT ![t].pc = "hangup"]
             /\ UNCHANGED << activeCalls, callControlIdToCallId,
                             wsTokenToCallId, state, stt, sockets >>
        ELSE /\ EndCleanup(t)
             /\ UNCHANGED hangupRequests
    /\ UNCHANGED << budget, isNgrokFreeTier, telnyxPublicKey, servers, ngrok, probe, currentCallId >>

\* provider.hangup() resolved (a non-2xx answer is only logged there).
EndHangupReturned(t) ==
    /\ TaskAt(t, {"end"}, "hangup")
    /\ EndCleanup(t)
    /\ UNCHANGED << budget, isNgrokFreeTier, telnyxPublicKey, servers, ngrok, probe, currentCallId, hangupRequests >>

\* provider.hangup() rejected (fetch threw): endCall has no handler.
EndHangupThrew(t) ==
    /\ TaskAt(t, {"end"}, "hangup")
    /\ tasks' = [tasks EXCEPT ![t] = Finished(@, "hangup_error")]
    /\ UNCHANGED << budget, isNgrokFreeTier, telnyxPublicKey, servers, ngrok, probe, currentCallId, activeCalls,
                    callControlIdToCallId, wsTokenToCallId, state, stt,
                    sockets, hangupRequests >>

\* ---------------------------------------------------------------- webhooks
\* The provider call ids the provider may send events for: those of the
\* calls whose place-call request has been sent and has not failed.
IssuedProviderCallIds ==
    { ProviderCallId(tasks[t].callId) : t \in { u \in DOMAIN tasks :
          /\ tasks[u].kind = "initiate"
          /\ tasks[u].pc # "connect"
          /\ tasks[u].result \notin {"stt_connect_failed", "provider_error"} } }

WebhookCallIds == IssuedProviderCallIds \cup {UnknownProviderCallId}

\* The stream URL built for provider call id p: it carries the wsToken of the
\* call the index and activeCalls give for p, else no token.
StreamUrlToken(p) ==
    LET callId == MapGet(callControlIdToCallId, p) IN
    IF callId # Null /\ IsActive(callId)
    THEN state[callId].wsToken
    ELSE NoToken

\* The URL is handed to the provider: by startStreaming (call.answered) or in
\* the stream-connect document (a non-terminal form status).
StreamUrlSent(p) ==
    /\ p \in WebhookCallIds
    /\ UNCHANGED << budget, isNgrokFreeTier, telnyxPublicKey, servers, ngrok, probe, currentCallId, activeCalls,
                    callControlIdToCallId, wsTokenToCallId, state, stt,
                    sockets, tasks, hangupRequests >>

\* handleTelnyxWebhook, 'call.answered'
TelnyxCallAnswered(p) == StreamUrlSent(p)

\* handleTwilioWebhook, a status other than completed|busy|no-answer|failed
TwilioStreamRequested(p) == StreamUrlSent(p)

\* TerminalEvent without `state.ws?.close()`.
TerminalEventKeepsSocket(p) ==
    /\ p \in WebhookCallIds
    /\ LET callId == MapGet(callControlIdToCallId, p) IN
        IF callId # Null
        THEN /\ callControlIdToCallId' = MapDelete(callControlIdToCallId, p)
             /\ IF IsActive(callId)
                THEN state' = [state EXCEPT ![callId].hungUp = TRUE]
                ELSE UNCHANGED state
        ELSE UNCHANGED << callControlIdToCallId, state >>
    /\ UNCHANGED << budget, isNgrokFreeTier, telnyxPublicKey, servers, ngrok, probe, currentCallId, activeCalls,
                    wsTokenToCallId, stt, tasks, hangupRequests, sockets >>

\* A terminal event for provider call id p, the same statements in both
\* handlers: the index entry is deleted and, if the call is still in
\* activeCalls, hungUp is set and its socket closed.
TerminalEvent(p) ==
    /\ p \in WebhookCallIds
    /\ LET callId == MapGet(callControlIdToCallId, p) IN
        IF callId # Null
        THEN /\ callControlIdToCallId' = MapDelete(callControlIdToCallId, p)
             /\ IF IsActive(callId)
                THEN /\ state' = [state EXCEPT ![callId].hungUp = TRUE]
                     /\ sockets' = CloseWs(state[callId])
                ELSE UNCHANGED << state, sockets >>
        ELSE UNCHANGED << callControlIdToCallId, state, sockets >>
    /\ UNCHANGED << budget, isNgrokFreeTier, telnyxPublicKey, servers, ngrok, probe, currentCallId, activeCalls,
                    wsTokenToCallId, stt, tasks, hangupRequests >>

\* handleTelnyxWebhook, 'call.hangup'
TelnyxCallHangup(p) == TerminalEvent(p)

\* handleTwilioWebhook, CallStatus completed|busy|no-answer|failed
TwilioCallEnded(p) == TerminalEvent(p)

\* handleTelnyxWebhook, 'streaming.started'
TelnyxStreamingStarted(p) ==
    /\ p \in WebhookCallIds
    /\ LET callId == MapGet(callControlIdToCallId, p) IN
        IF callId # Null /\ IsActive(callId)
        THEN state' = [state EXCEPT ![callId].streamingReady = TRUE]
        ELSE UNCHANGED state
    /\ UNCHANGED << budget, isNgrokFreeTier, telnyxPublicKey, servers, ngrok, probe, currentCallId, activeCalls,
                    callControlIdToCallId, wsTokenToCallId, stt, sockets,
                    tasks, hangupRequests >>

\* validateTelnyxSignature / validateTwilioSignature: `signed` says whether
\* the request carries a signature that verifies.
validateTelnyxSignature(signed) == signed

validateTwilioSignature(signed) == signed

\* A variant of TelnyxSignatureRejected that never rejects.
TelnyxSignatureNeverRejected(signed) == FALSE

\* handlePhoneWebhook, JSON branch: the request is turned away when a public
\* key is configured and the signature does not verify.
TelnyxSignatureRejected(signed) ==
    telnyxPublicKey /\ ~validateTelnyxSignature(signed)

\* handlePhoneWebhook, form branch: a signature that does not verify turns
\* the request away unless the host is ngrok free tier.
TwilioSignatureRejected(signed) ==
    ~validateTwilioSignature(signed) /\ ~isNgrokFreeTier

\* The event types of the JSON webhooks delivered: the three that
\* handleTelnyxWebhook acts on and one, call.initiated, of those it only
\* logs (call.machine.detection.ended and streaming.stopped are the others).
TelnyxEventTypes ==
    { "call.initiated", "call.answered", "call.hangup", "streaming.started" }

\* The CallStatus values handleTwilioWebhook treats as the end of the call.
TwilioTerminalStatuses == { "completed", "busy", "no-answer", "failed" }

\* The CallStatus values of the form webhooks delivered: two terminal ones
\* and one that is not.
TwilioStatuses == { "completed", "no-answer", "in-progress" }

\* The status of the response to a JSON webhook.
PhoneWebhookJsonStatus(signed) ==
    IF TelnyxSignatureRejected(signed) THEN 401 ELSE 200

\* Whether a JSON webhook of type eventType makes the server call
\* providers.phone.startStreaming.
StartStreamingInvoked(eventType, signed) ==
    ~TelnyxSignatureRejected(signed) /\ eventType = "call.answered"

\* handleTelnyxWebhook for provider call id p.
handleTelnyxWebhook(p, eventType) ==
    CASE eventType = "call.answered" -> TelnyxCallAnswered(p)
      [] eventType = "call.hangup" -> TelnyxCallHangup(p)
      [] eventType = "streaming.started" -> TelnyxStreamingStarted(p)
      [] OTHER -> p \in WebhookCallIds /\ UNCHANGED vars

\* handleTwilioWebhook for provider call id p.
handleTwilioWebhook(p, callStatus) ==
    IF callStatus \in TwilioTerminalStatuses
    THEN TwilioCallEnded(p)
    ELSE TwilioStreamRequested(p)

\* handlePhoneWebhook, a POST /twiml with a JSON body.
PhoneWebhookJson(p, eventType, signed) ==
    IF TelnyxSignatureRejected(signed)
    THEN p \in WebhookCallIds /\ UNCHANGED vars
    ELSE handleTelnyxWebhook(p, eventType)

\* handlePhoneWebhook, a POST /twiml with a form body.
PhoneWebhookForm(p, callStatus, signed) ==
    IF TwilioSignatureRejected(signed)
    THEN p \in WebhookCallIds /\ UNCHANGED vars
    ELSE handleTwilioWebhook(p, callStatus)

\* ------------------------------------------------------------ media socket
\* The tokens an upgrade request may carry: none, one no call was given, or
\* the wsToken of a call whose stream URL the provider may hold. A wsToken is
\* 128 random bits that leave the process in stream URLs only, and a stream
\* URL carries it from the moment initiateCall has registered the indices
\* (a webhook may ask for the URL right then).
UpgradeTokens ==
    { state[c].wsToken : c \in { d \in DOMAIN state :
          state[d].callControlId # Null } } \cup {NoToken, WrongToken}

\* UpgradeCallId without the activeCalls lookup of the token path.
UpgradeCallIdOfAnyCall(token) ==
    LET callId == IF token # NoToken THEN MapGet(wsTokenToCallId, token)
                  ELSE Null IN
    IF token # NoToken /\ callId # Null
    THEN IF ~validateWebSocketToken(state[callId].wsToken, token)
         THEN Null
         ELSE callId
    ELSE IF isNgrokFreeTier
         THEN IF Len(activeCalls) > 0
              THEN activeCalls[Len(activeCalls)]
              ELSE PlaceholderCallId
         ELSE Null

\* UpgradeCallId with a fallback to the oldest active call.
UpgradeCallIdOldestCall(token) ==
    LET callId == IF token # NoToken THEN MapGet(wsTokenToCallId, token)
                  ELSE Null IN
    IF token # NoToken /\ callId # Null
    THEN IF ~IsActive(callId)
            \/ ~validateWebSocketToken(state[callId].wsToken, token)
         THEN Null
         ELSE callId
    ELSE IF isNgrokFreeTier
         THEN IF Len(activeCalls) > 0
              THEN activeCalls[1]
              ELSE PlaceholderCallId
         ELSE Null

\* The callId the upgrade handler settles on for `token`, or Null for 401.
UpgradeCallId(token) ==
    LET callId == IF token # NoToken THEN MapGet(wsTokenToCallId, token)
                  ELSE Null IN
    IF token # NoToken /\ callId # Null
    THEN IF ~IsActive(callId)
            \/ ~validateWebSocketToken(state[callId].wsToken, token)
         THEN Null
         ELSE callId
    ELSE IF isNgrokFreeTier
         THEN IF Len(activeCalls) > 0
              THEN activeCalls[Len(activeCalls)]
              ELSE PlaceholderCallId
         ELSE Null

\* The 'upgrade' handler for /media-stream and, when it accepts, the
\* 'connection' handler: the new socket becomes the ws of the call.
Upgrade(token) ==
    /\ token \in UpgradeTokens
    /\ LET callId == UpgradeCallId(token) IN
        IF callId = Null
        THEN UNCHANGED << sockets, state >>
        ELSE /\ Room(1)
             /\ sockets' = Append(sockets, [callId |-> callId, open |-> TRUE])
             /\ state' = IF IsActive(callId)
                         THEN [state EXCEPT ![callId].ws = Len(sockets) + 1]
                         ELSE state
    /\ UNCHANGED << budget, isNgrokFreeTier, telnyxPublicKey, servers, ngrok, probe, currentCallId, activeCalls,
                    callControlIdToCallId, wsTokenToCallId, stt, tasks, hangupRequests >>

\* The streamSid the provider names in the 'start' frame of socket s.
StreamSidOf(s) == s

\* MediaStart with a 'start' frame that also marks the call as not hung up.
MediaStartClearsHungUp(s) ==
    /\ s \in DOMAIN sockets
    /\ sockets[s].open
    /\ IsActive(sockets[s].callId)
    /\ state' = [state EXCEPT ![sockets[s].callId].streamSid = StreamSidOf(s),
                              ![sockets[s].callId].hungUp = FALSE]
    /\ UNCHANGED << budget, isNgrokFreeTier, telnyxPublicKey, servers, ngrok, probe, currentCallId, activeCalls,
                    callControlIdToCallId, wsTokenToCallId, stt, sockets,
                    tasks, hangupRequests >>

\* 'message' handler, a JSON frame with event 'start' and a streamSid
MediaStart(s) ==
    /\ s \in DOMAIN sockets
    /\ sockets[s].open
    /\ IsActive(sockets[s].callId)
    /\ state' = [state EXCEPT ![sockets[s].callId].streamSid = StreamSidOf(s)]
    /\ UNCHANGED << budget, isNgrokFreeTier, telnyxPublicKey, servers, ngrok, probe, currentCallId, activeCalls,
                    callControlIdToCallId, wsTokenToCallId, stt, sockets,
                    tasks, hangupRequests >>

\* 'message' handler, a JSON frame with event 'stop'
MediaStop(s) ==
    /\ s \in DOMAIN sockets
    /\ sockets[s].open
    /\ IsActive(sockets[s].callId)
    /\ state' = [state EXCEPT ![sockets[s].callId].hungUp = TRUE]
    /\ UNCHANGED << budget, isNgrokFreeTier, telnyxPublicKey, servers, ngrok, probe, currentCallId, activeCalls,
                    callControlIdToCallId, wsTokenToCallId, stt, sockets,
                    tasks, hangupRequests >>

\* The provider closed socket s: the 'close' handler only logs.
MediaSocketClosed(s) ==
    /\ s \in DOMAIN sockets
    /\ sockets[s].open
    /\ sockets' = [sockets EXCEPT ![s].open = FALSE]
    /\ UNCHANGED << budget, isNgrokFreeTier, telnyxPublicKey, servers, ngrok, probe, currentCallId, activeCalls,
                    callControlIdToCallId, wsTokenToCallId, state, stt,
                    tasks, hangupRequests >>

\* SttConnectionLost with a drop that also discards the registered callback.
SttConnectionLostDropsWaiter(c) ==
    /\ c \in DOMAIN stt
    /\ stt[c].connected
    /\ stt' = [stt EXCEPT ![c] = [SessionSocketClosed(@) EXCEPT
                                      !.onTranscriptCallback = Null]]
    /\ UNCHANGED << budget, isNgrokFreeTier, telnyxPublicKey, servers, ngrok, probe, currentCallId, activeCalls,
                    callControlIdToCallId, wsTokenToCallId, state, sockets,
                    tasks, hangupRequests >>

\* ------------------------------------------------- STT session connection
\* The transcription service dropped the session's connection.
SttConnectionLost(c) ==
    /\ c \in DOMAIN stt
    /\ stt[c].connected
    /\ stt' = [stt EXCEPT ![c] = SessionSocketClosed(@)]
    /\ UNCHANGED << budget, isNgrokFreeTier, telnyxPublicKey, servers, ngrok, probe, currentCallId, activeCalls,
                    callControlIdToCallId, wsTokenToCallId, state, sockets,
                    tasks, hangupRequests >>

\* attemptReconnect after its backoff delay: it returns if the session was
\* closed meanwhile, else doConnect opens a new websocket.
SttReconnectWake(c) ==
    /\ c \in DOMAIN stt
    /\ stt[c].reconnect = "backoff"
    /\ stt' = [stt EXCEPT ![c].reconnect =
                   IF stt[c].closed THEN "idle" ELSE "connecting",
                          ![c].delay = 0]
    /\ UNCHANGED << budget, isNgrokFreeTier, telnyxPublicKey, servers, ngrok, probe, currentCallId, activeCalls,
                    callControlIdToCallId, wsTokenToCallId, state, sockets,
                    tasks, hangupRequests >>

\* doConnect of a reconnect: the 'open' handler.
SttReconnectOpened(c) ==
    /\ c \in DOMAIN stt
    /\ stt[c].reconnect = "connecting"
    /\ ~stt[c].closed
    /\ stt' = [stt EXCEPT ![c].connected = TRUE,
                          ![c].reconnectAttempts = 0,
                          ![c].reconnect = "idle"]
    /\ UNCHANGED << budget, isNgrokFreeTier, telnyxPublicKey, servers, ngrok, probe, currentCallId, activeCalls,
                    callControlIdToCallId, wsTokenToCallId, state, sockets,
                    tasks, hangupRequests >>

\* doConnect of a reconnect failed, or close() closed its websocket: the
\* 'close' handler runs and may start the next attempt.
SttReconnectFailed(c) ==
    /\ c \in DOMAIN stt
    /\ stt[c].reconnect = "connecting"
    /\ stt' = [stt EXCEPT ![c] = SessionSocketClosed(@)]
    /\ UNCHANGED << budget, isNgrokFreeTier, telnyxPublicKey, servers, ngrok, probe, currentCallId, activeCalls,
                    callControlIdToCallId, wsTokenToCallId, state, sockets,
                    tasks, hangupRequests >>

\* The 'close' event of the websocket that close() closed: the 'close'
\* handler runs on the closed session.
SttSocketClosedAfterClose(c) ==
    /\ c \in DOMAIN stt
    /\ stt[c].reconnect = "closing"
    /\ stt' = [stt EXCEPT ![c] = SessionSocketClosed(@)]
    /\ UNCHANGED << budget, isNgrokFreeTier, telnyxPublicKey, servers, ngrok, probe, currentCallId, activeCalls,
                    callControlIdToCallId, wsTokenToCallId, state, sockets,
                    tasks, hangupRequests >>

\* ------------------------------------------------------------------- Next
TaskIds == 1..budget.objects

CallIds == 1..budget.objects

SocketIds == 1..budget.objects

Next ==
    \/ InitiateCall
    \/ \E t \in TaskIds :
        \/ InitiateSttConnected(t)
        \/ InitiateSttConnectFailed(t)
        \/ InitiatePlaced(t)
        \/ InitiatePlaceFailed(t)
        \/ InitiateAttached(t)
        \/ InitiateAttachTimeout(t)
        \/ InitiateAudioFailed(t)
        \/ ListenStarted(t)
        \/ HangupPollFired(t)
        \/ TranscriptTimerFired(t)
        \/ SpeakFailed(t)
        \/ SpeakOnlySpoken(t)
        \/ EndSpoken(t)
        \/ EndHangupReturned(t)
        \/ EndHangupThrew(t)
    \/ \E c \in CallIds :
        \/ ContinueCall(c)
        \/ SpeakOnly(c)
        \/ EndCall(c)
        \/ TranscriptCompleted(c)
    \/ \E p \in 1..(MaxObjects + 1), signed \in BOOLEAN :
        \/ \E eventType \in TelnyxEventTypes :
               PhoneWebhookJson(p, eventType, signed)
        \/ \E callStatus \in TwilioStatuses :
               PhoneWebhookForm(p, callStatus, signed)
    \/ \E token \in 0..(MaxObjects + 1) : Upgrade(token)
    \/ \E s \in SocketIds :
        \/ MediaStart(s)
        \/ MediaStop(s)
        \/ MediaSocketClosed(s)

Spec == Init /\ [][Next]_vars

\* ------------------------------------------------- the listen specification
\* The same operations on a budget of ListenObjects objects of which at most
\* ListenCalls are calls, with the STT connection dropping and reconnecting
\* under them, and with the timers the event loop is bound to run: the
\* 100 ms interval of waitForHangup and the setTimeout of waitForTranscript.
ListenObjects == 5

ListenCalls == 1

InitListen == InitWith(ListenObjects, ListenCalls, {FALSE})

SttNext ==
    \E c \in CallIds :
        \/ SttConnectionLost(c)
        \/ SttReconnectWake(c)
        \/ SttReconnectOpened(c)
        \/ SttReconnectFailed(c)
        \/ SttSocketClosedAfterClose(c)

NextListen == Next \/ SttNext

TimersRun ==
    \A t \in 1..ListenObjects :
        /\ WF_vars(HangupPollFired(t))
        /\ WF_vars(TranscriptTimerFired(t))

SpecListen == InitListen /\ [][NextListen]_vars /\ TimersRun

\* ------------------------------------------------------- the ngrok tunnel
\* doStartNgrok from the resolution of ngrok.forward with a listener that
\* reports `url`: listener, currentUrl and reconnectAttempts are assigned and
\* monitorTunnel starts a health-check interval.
doStartNgrok(n, url) ==
    [n EXCEPT !.listener = "up",
              !.currentUrl = url,
              !.reconnectAttempts = 0,
              !.monitors = @ + 1]

\* The delay of the tunnel's reconnect attempt numbered `attempts`.
NgrokReconnectDelay(attempts) == baseReconnectDelayMs * 2 ^ (attempts - 1)

\* attemptReconnect of ngrok.ts without the test of maxReconnectAttempts.
attemptReconnectUncapped(n) ==
    IF n.intentionallyClosed \/ n.currentPort = Null
    THEN [n EXCEPT !.reconnect = "idle"]
    ELSE [n EXCEPT !.reconnectAttempts = @ + 1,
                   !.delay = NgrokReconnectDelay(n.reconnectAttempts + 1),
                   !.reconnect = "backoff"]

\* attemptReconnect of ngrok.ts up to its backoff delay.
attemptReconnect(n) ==
    IF n.intentionallyClosed \/ n.currentPort = Null
    THEN [n EXCEPT !.reconnect = "idle"]
    ELSE IF n.reconnectAttempts >= ngrokMaxReconnectAttempts
    THEN [n EXCEPT !.reconnect = "idle"]
    ELSE [n EXCEPT !.reconnectAttempts = @ + 1,
                   !.delay = NgrokReconnectDelay(n.reconnectAttempts + 1),
                   !.reconnect = "backoff"]

\* `newUrl !== currentUrl` in attemptReconnect, evaluated after doStartNgrok
\* has returned newUrl: `n` is the module state doStartNgrok left.
UrlChangedWarning(n, newUrl) == newUrl # n.currentUrl

\* startNgrok(port) up to the await of ngrok.forward. The server starts the
\* tunnel once; the auth token is configured.
StartNgrok ==
    /\ ngrok.currentPort = Null
    /\ ngrok' = [ngrok EXCEPT !.intentionallyClosed = FALSE,
                              !.reconnectAttempts = 0,
                              !.currentPort = 1,
                              !.start = "forward"]
    /\ UNCHANGED << budget, isNgrokFreeTier, telnyxPublicKey, servers, probe,
                    currentCallId, activeCalls, callControlIdToCallId,
                    wsTokenToCallId, state, stt, sockets, tasks,
                    hangupRequests >>

\* ngrok.forward of startNgrok resolved with a listener that has a url.
StartForwarded(url) ==
    /\ ngrok.start = "forward"
    /\ ngrok' = [doStartNgrok(ngrok, url) EXCEPT !.start = "idle"]
    /\ UNCHANGED << budget, isNgrokFreeTier, telnyxPublicKey, servers, probe,
                    currentCallId, activeCalls, callControlIdToCallId,
                    wsTokenToCallId, state, stt, sockets, tasks,
                    hangupRequests >>

\* startNgrok threw: ngrok.forward rejected (listener untouched), or it
\* resolved with a listener without url (listener assigned, then the throw).
StartFailed(withListener) ==
    /\ ngrok.start = "forward"
    /\ ngrok' = [ngrok EXCEPT !.start = "idle",
                              !.listener = IF withListener THEN "lost" ELSE @]
    /\ UNCHANGED << budget, isNgrokFreeTier, telnyxPublicKey, servers, probe,
                    currentCallId, activeCalls, callControlIdToCallId,
                    wsTokenToCallId, state, stt, sockets, tasks,
                    hangupRequests >>

\* The tunnel service dropped the tunnel: listener.url() is empty or throws
\* from now on.
TunnelLost ==
    /\ ngrok.listener = "up"
    /\ ngrok' = [ngrok EXCEPT !.listener = "lost"]
    /\ UNCHANGED << budget, isNgrokFreeTier, telnyxPublicKey, servers, probe,
                    currentCallId, activeCalls, callControlIdToCallId,
                    wsTokenToCallId, state, stt, sockets, tasks,
                    hangupRequests >>

\* A tick of a health-check interval that does not find a healthy tunnel:
\* after stopNgrok it clears itself, else it clears itself and calls
\* attemptReconnect. (A tick on a healthy tunnel changes nothing.)
MonitorTick ==
    /\ ngrok.monitors > 0
    /\ ngrok.intentionallyClosed \/ ngrok.listener # "up"
    /\ ngrok' = IF ngrok.intentionallyClosed
                THEN [ngrok EXCEPT !.monitors = @ - 1]
                ELSE attemptReconnect([ngrok EXCEPT !.monitors = @ - 1])
    /\ UNCHANGED << budget, isNgrokFreeTier, telnyxPublicKey, servers, probe,
                    currentCallId, activeCalls, callControlIdToCallId,
                    wsTokenToCallId, state, stt, sockets, tasks,
                    hangupRequests >>

\* attemptReconnect after its delay: cancelled after stopNgrok, else the old
\* listener is closed if there is one, else doStartNgrok calls ngrok.forward.
ReconnectWake ==
    /\ ngrok.reconnect = "backoff"
    /\ ngrok' = [ngrok EXCEPT
           !.delay = 0,
           !.reconnect = IF ngrok.intentionallyClosed THEN "idle"
                         ELSE IF ngrok.listener # "null" THEN "closing"
                         ELSE "forward"]
    /\ UNCHANGED << budget, isNgrokFreeTier, telnyxPublicKey, servers, probe,
                    currentCallId, activeCalls, callControlIdToCallId,
                    wsTokenToCallId, state, stt, sockets, tasks,
                    hangupRequests >>

\* attemptReconnect: listener.close() settled (an error is ignored), listener
\* is set to null and doStartNgrok calls ngrok.forward.
ReconnectListenerClosed ==
    /\ ngrok.reconnect = "closing"
    /\ ngrok' = [ngrok EXCEPT !.listener = "null", !.reconnect = "forward"]
    /\ UNCHANGED << budget, isNgrokFreeTier, telnyxPublicKey, servers, probe,
                    currentCallId, activeCalls, callControlIdToCallId,
                    wsTokenToCallId, state, stt, sockets, tasks,
                    hangupRequests >>

\* The reconnect's doStartNgrok returned `url`: the tunnel is up again, and
\* attemptReconnect compares the url with currentUrl for its warning.
ReconnectForwarded(url) ==
    /\ ngrok.reconnect = "forward"
    /\ LET n == doStartNgrok(ngrok, url) IN
        ngrok' = [n EXCEPT
            !.reconnect = "idle",
            !.lastReconnect = << ngrok.currentUrl, url,
                                 UrlChangedWarning(n, url) >>]
    /\ UNCHANGED << budget, isNgrokFreeTier, telnyxPublicKey, servers, probe,
                    currentCallId, activeCalls, callControlIdToCallId,
                    wsTokenToCallId, state, stt, sockets, tasks,
                    hangupRequests >>

\* The reconnect's doStartNgrok threw: the catch block calls attemptReconnect
\* again.
ReconnectForwardFailed(withListener) ==
    /\ ngrok.reconnect = "forward"
    /\ ngrok' = attemptReconnect(
           [ngrok EXCEPT !.listener = IF withListener THEN "lost" ELSE @])
    /\ UNCHANGED << budget, isNgrokFreeTier, telnyxPublicKey, servers, probe,
                    currentCallId, activeCalls, callControlIdToCallId,
                    wsTokenToCallId, state, stt, sockets, tasks,
                    hangupRequests >>

\* stopNgrok up to its await: the flag is set and, with a listener, its
\* close() is awaited; without one currentUrl is cleared at once.
StopNgrok ==
    /\ ngrok.stop = "idle"
    /\ ngrok' = IF ngrok.listener # "null"
                THEN [ngrok EXCEPT !.intentionallyClosed = TRUE,
                                   !.stop = "closing"]
                ELSE [ngrok EXCEPT !.intentionallyClosed = TRUE,
                                   !.currentUrl = Null]
    /\ UNCHANGED << budget, isNgrokFreeTier, telnyxPublicKey, servers, probe,
                    currentCallId, activeCalls, callControlIdToCallId,
                    wsTokenToCallId, state, stt, sockets, tasks,
                    hangupRequests >>

\* stopNgrok: listener.close() resolved, listener and currentUrl are cleared.
StopListenerClosed ==
    /\ ngrok.stop = "closing"
    /\ ngrok' = [ngrok EXCEPT !.listener = "null",
                              !.currentUrl = Null,
                              !.stop = "idle"]
    /\ UNCHANGED << budget, isNgrokFreeTier, telnyxPublicKey, servers, probe,
                    currentCallId, activeCalls, callControlIdToCallId,
                    wsTokenToCallId, state, stt, sockets, tasks,
                    hangupRequests >>

NgrokNext ==
    \/ StartNgrok
    \/ \E url \in NgrokUrls : StartForwarded(url)
    \/ \E withListener \in BOOLEAN : StartFailed(withListener)
    \/ TunnelLost
    \/ MonitorTick
    \/ ReconnectWake
    \/ ReconnectListenerClosed
    \/ \E url \in NgrokUrls : ReconnectForwarded(url)
    \/ \E withListener \in BOOLEAN : ReconnectForwardFailed(withListener)
    \/ StopNgrok
    \/ StopListenerClosed

SpecNgrok == Init /\ [][NgrokNext]_vars

\* ---------------------------------------- the free-tier tunnel as the host
\* The same operations with config.publicUrl on an ngrok free-tier host, on
\* a budget of FreeTierObjects objects of which at most FreeTierCalls are
\* calls.
FreeTierObjects == 5

FreeTierCalls == 2

InitFreeTier == InitWith(FreeTierObjects, FreeTierCalls, {TRUE})

SpecFreeTier == InitFreeTier /\ [][Next]_vars

\* ------------------------------------------- media frames and their audio
\* The websocket messages a media socket may deliver, by what the handler
\* looks at: the first byte ("{", another byte, or none: an empty message),
\* whether JSON.parse accepts the text, msg.event, msg.media.track ("none":
\* no track member) and msg.media.payload ("none": no payload member, "":
\* the empty string).
MediaFrames ==
    [ first : {"{", "other", "empty"},
      parses : BOOLEAN,
      event : {"media", "start", "stop", "mark"},
      track : {"inbound", "inbound_track", "outbound", "outbound_track",
               "none"},
      payload : {"data", "", "none"} ]

\* extractInboundAudio without the test of the track.
extractAnyAudio(frame) ==
    IF frame.first = "empty" THEN "null"
    ELSE IF frame.first # "{" THEN "null"
    ELSE IF ~frame.parses THEN "null"
    ELSE IF frame.event = "media" /\ frame.payload = "data"
    THEN "audio"
    ELSE "null"

\* extractInboundAudio: "audio" for the decoded payload, "null" for null.
extractInboundAudio(frame) ==
    IF frame.first = "empty" THEN "null"
    ELSE IF frame.first # "{" THEN "null"
    ELSE IF ~frame.parses THEN "null"
    ELSE IF frame.event = "media" /\ frame.payload = "data"
    THEN IF frame.track = "inbound" \/ frame.track = "inbound_track"
         THEN "audio"
         ELSE "null"
    ELSE "null"

\* A media socket of an active call is about to deliver `frame`.
InitFrames ==
    /\ InitManager(MaxObjects, MaxObjects, {FALSE})
    /\ probe \in { [frame |-> f, handled |-> FALSE, sendAudio |-> FALSE] :
                       f \in MediaFrames }

\* The end of the 'message' handler for a call that is in activeCalls with
\* its STT session: sttSession.sendAudio is called if extractInboundAudio
\* returns audio.
ForwardAudio ==
    /\ ~probe.handled
    /\ probe' = [probe EXCEPT
           !.handled = TRUE,
           !.sendAudio = extractInboundAudio(probe.frame) # "null"]
    /\ UNCHANGED << budget, isNgrokFreeTier, telnyxPublicKey, servers, ngrok,
                    currentCallId, activeCalls, callControlIdToCallId,
                    wsTokenToCallId, state, stt, sockets, tasks,
                    hangupRequests >>

SpecFrames == InitFrames /\ [][ForwardAudio]_vars

\* ------------------------------------------------- speaking: PCM to frames
\* OUTPUT_CHUNK_SIZE of speakStreaming, chunkSize of sendAudio.
OUTPUT_CHUNK_SIZE == 160

\* Bytes of 24 kHz PCM16 that make one 8 kHz sample.
SAMPLES_PER_RESAMPLE == 6

\* The number of chunks a TTS stream is followed for.
MaxChunks == 3

\* The lengths of the chunks a TTS stream delivers: not a sample, less than
\* a unit, a unit, more than a unit, a frame's worth, and a frame's worth
\* ending in the middle of a sample.
PcmChunkLengths == {1, 5, 6, 7, 960, 965}

\* The bytes of a chunk: byte j is start + j * step (mod 256).
PcmPatterns == { [start |-> 0, step |-> 37], [start |-> 250, step |-> 101] }

PcmChunk(len, pat) ==
    [ j \in 1..len |-> (pat.start + (j - 1) * pat.step) % 256 ]

\* Buffer.readInt16LE(offset): offset counts from 0.
readInt16LE(buf, offset) ==
    LET u == buf[offset + 1] + 256 * buf[offset + 2]
    IN  IF u >= 32768 THEN u - 65536 ELSE u

\* The two bytes Buffer.writeInt16LE(sample) writes.
writeInt16LE(sample) ==
    LET u == IF sample < 0 THEN sample + 65536 ELSE sample
    IN  << u % 256, u \div 256 >>

\* A sequence of byte sequences, concatenated.
RECURSIVE ConcatBuffers(_)
ConcatBuffers(bufs) ==
    IF bufs = << >> THEN << >>
    ELSE Head(bufs) \o ConcatBuffers(Tail(bufs))

\* resample24kTo8k taking every second sample instead of every third.
resample24kTo12k(pcmData) ==
    LET outputSamples == Len(pcmData) \div 4
    IN  [ k \in 1..(outputSamples * 2) |->
            writeInt16LE(readInt16LE(pcmData, ((k - 1) \div 2) * 2 * 2))
                [((k - 1) % 2) + 1] ]

\* resample24kTo8k: inputSamples is length / 2 (a fraction for an odd
\* length) and outputSamples is floor(inputSamples / 3), which is
\* floor(length / 6); sample i of the output is sample 3 * i of the input,
\* and byte k of the output is a byte of sample k / 2.
resample24kTo8k(pcmData) ==
    LET outputSamples == Len(pcmData) \div 6
    IN  [ k \in 1..(outputSamples * 2) |->
            writeInt16LE(readInt16LE(pcmData, ((k - 1) \div 2) * 3 * 2))
                [((k - 1) % 2) + 1] ]

\* The loop of pcmToMuLawSample that finds the exponent.
RECURSIVE MuLawExponent(_, _, _)
MuLawExponent(pcm, expMask, exponent) ==
    IF (pcm \div expMask) % 2 = 0 /\ exponent > 0
    THEN MuLawExponent(pcm, expMask \div 2, exponent - 1)
    ELSE exponent

\* pcmToMuLawSample for a 16-bit sample: (pcm >> 8) & 0x80 is bit 15.
pcmToMuLawSample(pcm) ==
    LET sign == IF pcm < 0 THEN 128 ELSE 0
        magnitude == IF sign # 0 THEN 0 - pcm ELSE pcm
        clipped == IF magnitude > 32635 THEN 32635 ELSE magnitude
        biased == clipped + 132
        exponent == MuLawExponent(biased, 16384, 7)
        mantissa == (biased \div (2 ^ (exponent + 3))) % 16
    IN  255 - (sign + exponent * 16 + mantissa)

pcmToMuLaw(pcmData) ==
    [ i \in 1..(Len(pcmData) \div 2) |->
          pcmToMuLawSample(readInt16LE(pcmData, (i - 1) * 2)) ]

\* The frames of sendAudio's loop: muLawData.subarray(i, i + chunkSize)
\* for i = 0, chunkSize, ... below the length.
RECURSIVE MuLawChunks(_)
MuLawChunks(muLawData) ==
    IF muLawData = << >> THEN << >>
    ELSE IF Len(muLawData) <= OUTPUT_CHUNK_SIZE THEN << muLawData >>
    ELSE << SubSeq(muLawData, 1, OUTPUT_CHUNK_SIZE) >> \o
         MuLawChunks(SubSeq(muLawData, OUTPUT_CHUNK_SIZE + 1,
                            Len(muLawData)))

\* The audio of the frames sendAudio generates for pcmData.
sendAudioFrames(pcmData) == MuLawChunks(pcmToMuLaw(resample24kTo8k(pcmData)))

\* The while loop of speakStreaming: whole frames leave pendingMuLaw.
RECURSIVE DrainMuLaw(_, _)
DrainMuLaw(pendingMuLaw, frames) ==
    IF Len(pendingMuLaw) >= OUTPUT_CHUNK_SIZE
    THEN DrainMuLaw(SubSeq(pendingMuLaw, OUTPUT_CHUNK_SIZE + 1,
                           Len(pendingMuLaw)),
                    Append(frames, SubSeq(pendingMuLaw, 1,
                                          OUTPUT_CHUNK_SIZE)))
    ELSE [ pendingMuLaw |-> pendingMuLaw, frames |-> frames ]

\* ws.send of the generated frames if the socket is open; a frame
\* generated while it is not open is dropped.
SendFrames(p, frames) ==
    IF p.wsOpen
    THEN [p EXCEPT !.sent = p.sent \o frames]
    ELSE [p EXCEPT !.skipped = p.skipped + Len(frames)]

\* The body of speakStreaming's loop with the bytes after the last whole
\* unit thrown away instead of kept for the next chunk.
speakStreamingChunkDropsRemainder(p, chunk) ==
    LET pendingPcm == p.pendingPcm \o chunk
        completeUnits == Len(pendingPcm) \div SAMPLES_PER_RESAMPLE
        bytesToProcess == completeUnits * SAMPLES_PER_RESAMPLE
        muLaw == pcmToMuLaw(resample24kTo8k(
                     SubSeq(pendingPcm, 1, bytesToProcess)))
        drained == DrainMuLaw(p.pendingMuLaw \o muLaw, << >>)
    IN  IF completeUnits > 0
        THEN SendFrames([p EXCEPT !.pendingPcm = << >>,
                                  !.pendingMuLaw = drained.pendingMuLaw],
                        drained.frames)
        ELSE [p EXCEPT !.pendingPcm = << >>]

\* The body of speakStreaming's loop for one chunk of the TTS stream.
speakStreamingChunk(p, chunk) ==
    LET pendingPcm == p.pendingPcm \o chunk
        completeUnits == Len(pendingPcm) \div SAMPLES_PER_RESAMPLE
        bytesToProcess == completeUnits * SAMPLES_PER_RESAMPLE
        muLaw == pcmToMuLaw(resample24kTo8k(
                     SubSeq(pendingPcm, 1, bytesToProcess)))
        drained == DrainMuLaw(p.pendingMuLaw \o muLaw, << >>)
    IN  IF completeUnits > 0
        THEN SendFrames([p EXCEPT
                 !.pendingPcm = SubSeq(pendingPcm, bytesToProcess + 1,
                                       Len(pendingPcm)),
                 !.pendingMuLaw = drained.pendingMuLaw],
                        drained.frames)
        ELSE [p EXCEPT !.pendingPcm = pendingPcm]

\* The end of speakStreaming without the frame of the remaining audio.
speakStreamingEndNoFlush(p) == [p EXCEPT !.done = TRUE]

\* The end of speakStreaming: the remaining audio is sent as one frame if
\* there is any and the socket is open.
speakStreamingEnd(p) ==
    IF Len(p.pendingMuLaw) > 0 /\ p.wsOpen
    THEN [p EXCEPT !.sent = Append(p.sent, p.pendingMuLaw), !.done = TRUE]
    ELSE [p EXCEPT !.done = TRUE]

\* The PCM tts.synthesize may return: nothing, one chunk or two.
SynthesizedPcm ==
    { << >> } \cup
    { PcmChunk(l, pat) : l \in PcmChunkLengths, pat \in PcmPatterns } \cup
    { PcmChunk(960, pat) \o PcmChunk(l, pat) :
          l \in PcmChunkLengths, pat \in PcmPatterns }

\* A speak operation on a call whose socket is open begins: with a TTS
\* provider that streams (path "stream", nothing received yet) or with one
\* that returns all the PCM at once (path "buffer").
NewSpeak(path, pcm) ==
    [ path |-> path, pcm |-> pcm, chunks |-> << >>, pendingPcm |-> << >>,
      pendingMuLaw |-> << >>, sent |-> << >>, skipped |-> 0,
      wsOpen |-> TRUE, done |-> FALSE ]

InitSpeak ==
    /\ InitManager(MaxObjects, MaxObjects, {FALSE})
    /\ probe \in { NewSpeak("stream", << >>) } \cup
                 { NewSpeak("buffer", pcm) : pcm \in SynthesizedPcm }

\* The TTS stream yields a chunk.
SpeakStreamChunk(len, pat) ==
    /\ probe.path = "stream"
    /\ ~probe.done
    /\ Len(probe.chunks) < MaxChunks
    /\ probe' = speakStreamingChunk(
                    [probe EXCEPT !.pcm = probe.pcm \o PcmChunk(len, pat),
                                  !.chunks = Append(probe.chunks, len)],
                    PcmChunk(len, pat))
    /\ UNCHANGED << budget, isNgrokFreeTier, telnyxPublicKey, servers, ngrok,
                    currentCallId, activeCalls, callControlIdToCallId,
                    wsTokenToCallId, state, stt, sockets, tasks,
                    hangupRequests >>

\* The TTS stream ends.
SpeakStreamEnd ==
    /\ probe.path = "stream"
    /\ ~probe.done
    /\ probe' = speakStreamingEnd(probe)
    /\ UNCHANGED << budget, isNgrokFreeTier, telnyxPublicKey, servers, ngrok,
                    currentCallId, activeCalls, callControlIdToCallId,
                    wsTokenToCallId, state, stt, sockets, tasks,
                    hangupRequests >>

\* sendAudio with the PCM tts.synthesize returned.
SpeakSendAudio ==
    /\ probe.path = "buffer"
    /\ ~probe.done
    /\ probe' = [SendFrames(probe, sendAudioFrames(probe.pcm))
                    EXCEPT !.done = TRUE]
    /\ UNCHANGED << budget, isNgrokFreeTier, telnyxPublicKey, servers, ngrok,
                    currentCallId, activeCalls, callControlIdToCallId,
                    wsTokenToCallId, state, stt, sockets, tasks,
                    hangupRequests >>

\* The media socket closes while the operation speaks.
SpeakSocketClosed ==
    /\ probe.wsOpen
    /\ ~probe.done
    /\ probe' = [probe EXCEPT !.wsOpen = FALSE]
    /\ UNCHANGED << budget, isNgrokFreeTier, telnyxPublicKey, servers, ngrok,
                    currentCallId, activeCalls, callControlIdToCallId,
                    wsTokenToCallId, state, stt, sockets, tasks,
                    hangupRequests >>

SpeakNext ==
    \/ \E len \in PcmChunkLengths, pat \in PcmPatterns :
           SpeakStreamChunk(len, pat)
    \/ SpeakStreamEnd
    \/ SpeakSendAudio
    \/ SpeakSocketClosed

SpecSpeak == InitSpeak /\ [][SpeakNext]_vars

\* ------------------------------------------- the pre-generated first message
\* initiateCall with the synthesis of its message and the frames of
\* sendPreGeneratedAudio, among the same operations and events; probe[c]
\* follows the message of call c.
PregenObjects == 5

PregenCalls == 1

\* The most 160-byte frames the synthesized message has.
MaxFrames == 2

\* Nothing synthesized yet: tts is the state of ttsPromise, frames the
\* number of frames of the audio it resolved with, sent and skipped the
\* frames sendPreGeneratedAudio has passed to ws.send or dropped.
NewPregenerated ==
    [ tts |-> "idle", frames |-> 0, sent |-> 0, skipped |-> 0 ]

InitPregenerated ==
    /\ InitManager(PregenObjects, PregenCalls, {FALSE})
    /\ probe = [c \in 1..PregenCalls |-> NewPregenerated]

\* generateTTSAudio of call c resolved with audio of n frames.
TtsGenerated(c, n) ==
    /\ c \in DOMAIN probe
    /\ probe[c].tts = "running"
    /\ probe' = [probe EXCEPT ![c].tts = "ready", ![c].frames = n]
    /\ UNCHANGED << budget, isNgrokFreeTier, telnyxPublicKey, servers, ngrok,
                    currentCallId, activeCalls, callControlIdToCallId,
                    wsTokenToCallId, state, stt, sockets, tasks,
                    hangupRequests >>

\* generateTTSAudio of call c rejected.
TtsFailed(c) ==
    /\ c \in DOMAIN probe
    /\ probe[c].tts = "running"
    /\ probe' = [probe EXCEPT ![c].tts = "failed"]
    /\ UNCHANGED << budget, isNgrokFreeTier, telnyxPublicKey, servers, ngrok,
                    currentCallId, activeCalls, callControlIdToCallId,
                    wsTokenToCallId, state, stt, sockets, tasks,
                    hangupRequests >>

\* A variant of SendingPreGenerated that sends as soon as the audio is
\* there, attached or not.
SendingWhenGenerated(t) ==
    /\ t \in DOMAIN tasks
    /\ tasks[t].kind = "initiate"
    /\ tasks[t].pc \in {"attach", "speak"}
    /\ probe[tasks[t].callId].tts = "ready"

\* initiateCall is in sendPreGeneratedAudio: waitForConnection has
\* returned and ttsPromise has resolved.
SendingPreGenerated(t) ==
    /\ TaskAt(t, {"initiate"}, "speak")
    /\ probe[tasks[t].callId].tts = "ready"

\* One round of sendPreGeneratedAudio's loop: the next frame is sent if the
\* socket is open and dropped if not.
SendPreGeneratedFrame(t) ==
    /\ SendingPreGenerated(t)
    /\ LET c == tasks[t].callId IN
        /\ probe[c].sent + probe[c].skipped < probe[c].frames
        /\ probe' = IF WsOpen(state[c])
                    THEN [probe EXCEPT ![c].sent = @ + 1]
                    ELSE [probe EXCEPT ![c].skipped = @ + 1]
    /\ UNCHANGED << budget, isNgrokFreeTier, telnyxPublicKey, servers, ngrok,
                    currentCallId, activeCalls, callControlIdToCallId,
                    wsTokenToCallId, state, stt, sockets, tasks,
                    hangupRequests >>

\* sendPreGeneratedAudio has returned (its loop is through and the 200 ms
\* have passed) and listen() starts; in continueCall listen() follows
\* speak().
ListenStartedAfterAudio(t) ==
    /\ ListenStarted(t)
    /\ tasks[t].kind = "initiate" =>
           /\ SendingPreGenerated(t)
           /\ probe[tasks[t].callId].sent + probe[tasks[t].callId].skipped
                  = probe[tasks[t].callId].frames

\* `await ttsPromise` throws what generateTTSAudio rejected with.
PregeneratedAudioFailed(t) ==
    /\ InitiateAudioFailed(t)
    /\ probe[tasks[t].callId].tts = "failed"

NextPregenerated ==
    \/ InitiateCall
    \/ \E t \in TaskIds :
        \/ InitiateSttConnected(t)
        \/ InitiateSttConnectFailed(t)
        \/ InitiatePlaced(t)
        \/ InitiatePlaceFailed(t)
        \/ InitiateAttached(t)
        \/ InitiateAttachTimeout(t)
        \/ PregeneratedAudioFailed(t)
        \/ SendPreGeneratedFrame(t)
        \/ ListenStartedAfterAudio(t)
        \/ HangupPollFired(t)
        \/ TranscriptTimerFired(t)
        \/ SpeakFailed(t)
        \/ SpeakOnlySpoken(t)
        \/ EndSpoken(t)
        \/ EndHangupReturned(t)
        \/ EndHangupThrew(t)
    \/ \E c \in CallIds :
        \/ \E n \in 0..MaxFrames : TtsGenerated(c, n)
        \/ TtsFailed(c)
        \/ ContinueCall(c)
        \/ SpeakOnly(c)
        \/ EndCall(c)
        \/ TranscriptCompleted(c)
    \/ \E p \in 1..(MaxObjects + 1), signed \in BOOLEAN :
        \/ \E eventType \in TelnyxEventTypes :
               PhoneWebhookJson(p, eventType, signed)
        \/ \E callStatus \in TwilioStatuses :
               PhoneWebhookForm(p, callStatus, signed)
    \/ \E token \in 0..(MaxObjects + 1) : Upgrade(token)
    \/ \E s \in SocketIds :
        \/ MediaStart(s)
        \/ MediaStop(s)
        \/ MediaSocketClosed(s)

SpecPregenerated == InitPregenerated /\ [][NextPregenerated]_vars

\* ---------------------------------------------------------------- shutdown
\* The operations on one call, with shutdown() called at any moment.
ShutdownObjects == 5

ShutdownCalls == 1

InitShutdown == InitWith(ShutdownObjects, ShutdownCalls, {FALSE})

\* shutdown(): endCall(callId, 'Goodbye!') is invoked for every key of
\* activeCalls, each running up to its first await (in speak) with its
\* rejection only logged, and then, in the same turn of the event loop,
\* wss.close() and httpServer.close() are called.
Shutdown ==
    /\ servers.httpServer = "listening"
    /\ Room(Len(activeCalls))
    /\ tasks' = tasks \o [ i \in 1..Len(activeCalls) |->
                              Invoked("end", activeCalls[i]) ]
    /\ servers' = [ httpServer |-> "closed", wss |-> "closed",
                    goodbyes |-> (Len(tasks) + 1)..
                                 (Len(tasks) + Len(activeCalls)) ]
    /\ UNCHANGED << budget, isNgrokFreeTier, telnyxPublicKey, ngrok, probe,
                    currentCallId, activeCalls, callControlIdToCallId,
                    wsTokenToCallId, state, stt, sockets, hangupRequests >>

NextShutdown == Next \/ Shutdown

SpecShutdown == InitShutdown /\ [][NextShutdown]_vars

\* ------------------------------------------------ transcripts nobody awaits
\* The operations on one call, with the 'completed' events that find no
\* callback or carry an empty transcript; probe[c] counts those of the
\* session of call c.
TranscriptObjects == 5

TranscriptCalls == 1

\* How many events of each kind are followed.
MaxDiscarded == 1

InitTranscripts ==
    /\ InitManager(TranscriptObjects, TranscriptCalls, {FALSE})
    /\ probe = [ c \in 1..TranscriptCalls |-> [ unheard |-> 0, empty |-> 0 ] ]

\* handleEvent, '...input_audio_transcription.completed' with an empty
\* transcript, or with no callback registered: nothing is called and
\* nothing is kept, pendingTranscript is reset.
TranscriptDiscarded(c, transcript) ==
    /\ c \in DOMAIN stt
    /\ stt[c].connected
    /\ IF transcript = ""
       THEN /\ probe[c].empty < MaxDiscarded
            /\ probe' = [probe EXCEPT ![c].empty = @ + 1]
       ELSE /\ stt[c].onTranscriptCallback = Null
            /\ probe[c].unheard < MaxDiscarded
            /\ probe' = [probe EXCEPT ![c].unheard = @ + 1]
    /\ UNCHANGED << budget, isNgrokFreeTier, telnyxPublicKey, servers, ngrok,
                    currentCallId, activeCalls, callControlIdToCallId,
                    wsTokenToCallId, state, stt, sockets, tasks,
                    hangupRequests >>

NextTranscripts ==
    \/ Next
    \/ \E c \in CallIds, transcript \in {"", "text"} :
           TranscriptDiscarded(c, transcript)

SpecTranscripts == InitTranscripts /\ [][NextTranscripts]_vars

\* ------------------------------------------------------ the text providers
\* IMessageProvider; SlackProvider and TelegramProvider have the same
\* messageQueue, messageWaiters, handleIncomingMessage and waitForMessage.
\* How many messages arrive, waitForMessage calls are made and watch
\* processes are spawned.
MaxMessages == 3

MaxWaits == 3

MaxSpawns == 3

\* The message texts: the empty string (Slack passes `msg.text || ''`, an
\* iMessage may have attachments only) and a text.
MessageTexts == {"", "hi"}

\* Array.indexOf: the first position (from 0) of x in s, else -1.
IndexOf(s, x) ==
    IF \E i \in DOMAIN s : s[i] = x
    THEN (CHOOSE i \in DOMAIN s : s[i] = x /\ \A j \in 1..(i - 1) : s[j] # x)
             - 1
    ELSE 0 - 1

\* Array.splice(idx, 1), idx from 0.
Splice(s, idx) == SubSeq(s, 1, idx) \o SubSeq(s, idx + 2, Len(s))

\* The arrow function waitForMessage call k pushes to messageWaiters, and
\* the resolve function of the promise of call k.
WaiterOf(k) == [ fn |-> "wrapper", of |-> k ]

ResolveOf(k) == [ fn |-> "resolve", of |-> k ]

\* The provider after initialize(): the first watch process runs. Message n
\* is the n-th text passed to handleIncomingMessage (texts[n]); waits[k] is
\* the promise of the k-th waitForMessage call, with the message it
\* resolved with, and timers are the calls whose setTimeout is pending.
TextProviderStarted ==
    [ watchProcess |-> 1,
      processes |-> << "running" >>,
      restartTimers |-> 0,
      stopped |-> FALSE,
      texts |-> << >>,
      messageQueue |-> << >>,
      messageWaiters |-> << >>,
      waits |-> << >>,
      timers |-> {} ]

InitText ==
    /\ InitManager(MaxObjects, MaxObjects, {FALSE})
    /\ probe = TextProviderStarted

\* startWatching(): a watch process is spawned and becomes watchProcess.
startWatching(p) ==
    [p EXCEPT !.processes = Append(@, "running"),
              !.watchProcess = Len(p.processes) + 1]

\* The 'close' handler of a watch process: a restart is scheduled unless
\* watchProcess is null.
WatchClosed(p, pid) ==
    [p EXCEPT !.processes[pid] = "closed",
              !.restartTimers = IF p.watchProcess # Null THEN @ + 1 ELSE @]

\* The wrapper pushed by call k runs with message n: clearTimeout, and
\* resolve(message), which settles the promise only if it is still pending.
WaiterCalled(p, k, n) ==
    [p EXCEPT !.timers = @ \ {k},
              !.waits[k] = IF @.status = "pending"
                           THEN [status |-> "resolved", message |-> n]
                           ELSE @]

\* handleIncomingMessage(text) for the n-th message (the history apart).
handleIncomingMessage(p, text) ==
    LET n == Len(p.texts) + 1
        q == [p EXCEPT !.texts = Append(@, text)] IN
    IF p.messageWaiters # << >>
    THEN WaiterCalled([q EXCEPT !.messageWaiters = Tail(@)],
                      Head(p.messageWaiters).of, n)
    ELSE [q EXCEPT !.messageQueue = Append(@, n)]

\* waitForMessage(): messageQueue.shift() is returned if it is truthy (a
\* non-empty text); otherwise, with what was shifted gone, a timer is set
\* and a wrapper is pushed to messageWaiters.
waitForMessage(p) ==
    LET k == Len(p.waits) + 1
        shifted == IF p.messageQueue # << >> THEN Tail(p.messageQueue)
                   ELSE p.messageQueue IN
    IF p.messageQueue # << >> /\ p.texts[Head(p.messageQueue)] # ""
    THEN [p EXCEPT !.messageQueue = shifted,
                   !.waits = Append(@, [status |-> "resolved",
                                        message |-> Head(p.messageQueue)])]
    ELSE [p EXCEPT !.messageQueue = shifted,
                   !.waits = Append(@, [status |-> "pending",
                                        message |-> 0]),
                   !.timers = @ \cup {k},
                   !.messageWaiters = Append(@, WaiterOf(k))]

\* The timer of call k: messageWaiters.indexOf(resolve), a splice if it is
\* found, and reject.
waitTimedOut(p, k) ==
    LET idx == IndexOf(p.messageWaiters, ResolveOf(k)) IN
    [p EXCEPT !.timers = @ \ {k},
              !.messageWaiters = IF idx # 0 - 1 THEN Splice(@, idx) ELSE @,
              !.waits[k] = IF @.status = "pending"
                           THEN [status |-> "timeout", message |-> 0]
                           ELSE @]

\* IMessageProvider.shutdown(): watchProcess is set to null and the process
\* it was is killed (nothing happens to one that has exited);
\* messageWaiters and messageQueue are emptied.
providerShutdown(p) ==
    [p EXCEPT !.watchProcess = Null,
              !.processes = IF p.watchProcess # Null
                            THEN [@ EXCEPT ![p.watchProcess] =
                                     IF @ = "running" THEN "killed" ELSE @]
                            ELSE @,
              !.stopped = TRUE,
              !.messageWaiters = << >>,
              !.messageQueue = << >>]

\* A running watch process writes the line of a new message of the user.
MessageArrived(text) ==
    /\ Len(probe.texts) < MaxMessages
    /\ \E pid \in DOMAIN probe.processes : probe.processes[pid] = "running"
    /\ probe' = handleIncomingMessage(probe, text)
    /\ UNCHANGED << budget, isNgrokFreeTier, telnyxPublicKey, servers, ngrok,
                    currentCallId, activeCalls, callControlIdToCallId,
                    wsTokenToCallId, state, stt, sockets, tasks,
                    hangupRequests >>

WaitForMessage ==
    /\ Len(probe.waits) < MaxWaits
    /\ probe' = waitForMessage(probe)
    /\ UNCHANGED << budget, isNgrokFreeTier, telnyxPublicKey, servers, ngrok,
                    currentCallId, activeCalls, callControlIdToCallId,
                    wsTokenToCallId, state, stt, sockets, tasks,
                    hangupRequests >>

WaitTimedOut(k) ==
    /\ k \in probe.timers
    /\ probe' = waitTimedOut(probe, k)
    /\ UNCHANGED << budget, isNgrokFreeTier, telnyxPublicKey, servers, ngrok,
                    currentCallId, activeCalls, callControlIdToCallId,
                    wsTokenToCallId, state, stt, sockets, tasks,
                    hangupRequests >>

\* A watch process exits, by itself or killed, and its 'close' event is
\* handled.
WatchProcessClosed(pid) ==
    /\ pid \in DOMAIN probe.processes
    /\ probe.processes[pid] \in {"running", "killed"}
    /\ probe' = WatchClosed(probe, pid)
    /\ UNCHANGED << budget, isNgrokFreeTier, telnyxPublicKey, servers, ngrok,
                    currentCallId, activeCalls, callControlIdToCallId,
                    wsTokenToCallId, state, stt, sockets, tasks,
                    hangupRequests >>

\* The 1 s restart timer fires: startWatching().
WatchRestart ==
    /\ probe.restartTimers > 0
    /\ Len(probe.processes) < MaxSpawns
    /\ probe' = startWatching([probe EXCEPT !.restartTimers = @ - 1])
    /\ UNCHANGED << budget, isNgrokFreeTier, telnyxPublicKey, servers, ngrok,
                    currentCallId, activeCalls, callControlIdToCallId,
                    wsTokenToCallId, state, stt, sockets, tasks,
                    hangupRequests >>

ProviderShutdown ==
    /\ ~probe.stopped
    /\ probe' = providerShutdown(probe)
    /\ UNCHANGED << budget, isNgrokFreeTier, telnyxPublicKey, servers, ngrok,
                    currentCallId, activeCalls, callControlIdToCallId,
                    wsTokenToCallId, state, stt, sockets, tasks,
                    hangupRequests >>

TextNext ==
    \/ \E text \in MessageTexts : MessageArrived(text)
    \/ WaitForMessage
    \/ \E k \in 1..MaxWaits : WaitTimedOut(k)
    \/ \E pid \in 1..MaxSpawns : WatchProcessClosed(pid)
    \/ WatchRestart
    \/ ProviderShutdown

SpecText == InitText /\ [][TextNext]_vars

\* ------------------------------------------------------------------ claims
\* A history whose entries are agent, user, agent, user, ...
StrictlyAlternates(h) ==
    \A i \in DOMAIN h : h[i] = IF i % 2 = 1 THEN "claude" ELSE "user"

\* The operations of the given kinds on call c that ended with `result`.
Ended(c, kinds, result) ==
    { t \in DOMAIN tasks : /\ tasks[t].callId = c
                           /\ tasks[t].kind \in kinds
                           /\ tasks[t].result = result }

\* The positions of history h that hold `speaker`.
Entries(h, speaker) == { i \in DOMAIN h : h[i] = speaker }

NoIndexEntry(c) ==
    /\ ~IsActive(c)
    /\ \A p \in DOMAIN callControlIdToCallId : callControlIdToCallId[p] # c
    /\ \A k \in DOMAIN wsTokenToCallId : wsTokenToCallId[k] # c

\* A terminal provider event was handled for call c (or endCall cleaned it
\* up): nothing else deletes the entry InitiatePlaced registered.
ProviderEntryDeleted(c) ==
    /\ state[c].callControlId # Null
    /\ state[c].callControlId \notin DOMAIN callControlIdToCallId

\* Call c has ended: by endCall, by a terminal provider event, or by a
\* failure of its initiateCall or of a turn.
CallOver(c) ==
    \/ Ended(c, {"end"}, "ok") # {}
    \/ ProviderEntryDeleted(c)
    \/ \E r \in {"provider_error", "attach_timeout", "hung_up",
                 "transcript_timeout"} :
           Ended(c, {"initiate", "continue"}, r) # {}

\* C2 as stated: once a call has ended (endCall, a terminal provider event,
\* a place-call error, an attach timeout, a hang-up or a timeout during a
\* turn) no index holds an entry for it.
C2_EndedCallLeavesIndices ==
    \A c \in DOMAIN state : CallOver(c) => NoIndexEntry(c)

\* C3: an endCall invoked for a call an earlier endCall has completed on
\* fails with 'No active call' at once, speaks nothing, sends no provider
\* hangup, and the call is in none of the three indices.
C3_SecondEndCallFails ==
    [][ \A c \in 1..MaxObjects :
          (Ended(c, {"end"}, "ok") # {} /\ EndCall(c)) =>
              /\ tasks'[Len(tasks')].result = "not_found"
              /\ tasks'[Len(tasks')].pc = "done"
              /\ hangupRequests' = hangupRequests
              /\ NoIndexEntry(c)' ]_vars

\* An endCall has failed with 'No active call' after an endCall on the same
\* call had completed.
C3_EndedTwice ==
    \E c \in DOMAIN state :
        /\ Ended(c, {"end"}, "ok") # {}
        /\ Ended(c, {"end"}, "not_found") # {}

\* The active calls whose wsToken is `token`.
TokenOwners(token) ==
    { c \in Range(activeCalls) : state[c].wsToken = token }

\* C4: on a host that is not ngrok free tier an upgrade is accepted exactly
\* if it presents the wsToken of an active call, is 401 otherwise, and an
\* accepted socket is the media socket of exactly that call.
C4_TokenAuthenticatesUpgrade ==
    ~isNgrokFreeTier =>
        /\ \A token \in UpgradeTokens :
               IF TokenOwners(token) = {}
               THEN UpgradeCallId(token) = Null
               ELSE TokenOwners(token) = {UpgradeCallId(token)}
        /\ \A s \in DOMAIN sockets :
               /\ sockets[s].callId \in DOMAIN state
               /\ state[sockets[s].callId].wsToken \in UpgradeTokens
        /\ \A c \in DOMAIN state :
               state[c].ws # Null => sockets[state[c].ws].callId = c

\* A socket was accepted for one of two active calls and is the media socket
\* of that call alone, while the token of a call that is over is refused.
C4_SocketBoundToItsCall ==
    /\ ~isNgrokFreeTier
    /\ \E c, d \in Range(activeCalls) :
           /\ c # d
           /\ state[c].ws # Null
           /\ sockets[state[c].ws].callId = c
           /\ state[d].ws = Null
           /\ UpgradeCallId(state[d].wsToken) = d
    /\ UpgradeCallId(WrongToken) = Null

\* C5 as stated, for the attached socket: a wsToken works once. When the
\* call's media socket has attached, the token's mapping is gone and an
\* upgrade with the token is refused.
C5_TokenWorksOnce ==
    ~isNgrokFreeTier =>
        \A c \in DOMAIN state :
            state[c].ws # Null =>
                /\ state[c].wsToken \notin DOMAIN wsTokenToCallId
                /\ UpgradeCallId(state[c].wsToken) = Null

\* The turns (initiateCall, continueCall) of call c that are speaking or
\* listening.
TurnsInProgress(c) ==
    { t \in DOMAIN tasks : /\ tasks[t].callId = c
                           /\ tasks[t].kind \in {"initiate", "continue"}
                           /\ tasks[t].pc \in {"speak", "listen"} }

\* C6 as stated: two turns of one call are never in progress at once.
C6_OneTurnAtATime ==
    \A c \in DOMAIN state : Cardinality(TurnsInProgress(c)) <= 1

\* The cleanup C7 names, for call c: STT session closed, media socket not
\* open, and a provider hangup sent if the provider gave a call id.
CleanedUp(c) ==
    /\ stt[c].closed
    /\ ~WsOpen(state[c])
    /\ state[c].callControlId # Null => hangupRequests[c] > 0

\* C7 as stated: a turn that failed (place-call error, attach timeout,
\* hang-up, listen timeout, TTS failure) has cleaned the call up, and an
\* attach timeout has removed the call record and closed the STT session.
C7_FailedTurnCleansUp ==
    \A t \in DOMAIN tasks :
        LET c == tasks[t].callId IN
        /\ tasks[t].kind \in {"initiate", "continue"}
        /\ tasks[t].result \in {"provider_error", "attach_timeout", "hung_up",
                                "transcript_timeout", "tts_failed"}
        => /\ CleanedUp(c)
           /\ tasks[t].result = "attach_timeout" =>
                  ~IsActive(c) /\ stt[c].closed

\* C8: once hungUp is true for a call it stays true.
C8_HungUpMonotonic ==
    [][ \A c \in DOMAIN state : state[c].hungUp => state'[c].hungUp ]_vars

\* A call is marked hung up while it is still active with an open media
\* socket, so that frames and webhooks for it keep arriving.
C8_HungUpWhileAttached ==
    \E c \in Range(activeCalls) :
        /\ state[c].hungUp
        /\ WsOpen(state[c])
        /\ state[c].streamSid # Null

\* Task t is suspended in listen().
Listening(t) == t \in DOMAIN tasks /\ tasks[t].pc = "listen"

\* The hang-up of task t's call was observed while t's listen was pending,
\* and the listen is still pending.
HungUpWhileListening(t) ==
    /\ Listening(t)
    /\ ~tasks[t].hungUpBefore
    /\ state[tasks[t].callId].hungUp

\* The listen of task t ends in this step.
ListenEnds(t) == Listening(t) /\ tasks'[t].pc # "listen"

\* C9 as stated: a listen that is pending once the hang-up has been observed
\* fails with the user-hung-up error.
C9_HangupFailsListenAsHungUp ==
    [][ \A t \in 1..ListenObjects :
          (HungUpWhileListening(t) /\ ListenEnds(t)) =>
              tasks'[t].result = "hung_up" ]_vars

\* C9, amended: a listen that is pending once the hang-up has been observed
\* ends, never with a transcript: with the user-hung-up error, or with the
\* transcript-timeout error if that timer fires before the next hang-up
\* poll.
C9_HangupFailsListen ==
    /\ [][ \A t \in 1..ListenObjects :
             (HungUpWhileListening(t) /\ ListenEnds(t)) =>
                 tasks'[t].result \in {"hung_up", "transcript_timeout"} ]_vars
    /\ \A t \in 1..ListenObjects :
           HungUpWhileListening(t)
               ~> (t \in DOMAIN tasks /\ tasks[t].pc = "done")

\* A continueCall whose listen started before the hang-up has failed with
\* the user-hung-up error.
C9_ListenFailedByHangup ==
    \E t \in DOMAIN tasks :
        /\ tasks[t].kind = "continue"
        /\ tasks[t].result = "hung_up"
        /\ ~tasks[t].hungUpBefore

\* C10: every listen ends, whatever the STT connection does.
C10_ListenTerminates ==
    \A t \in 1..ListenObjects :
        Listening(t) ~> (t \in DOMAIN tasks /\ tasks[t].pc = "done")

\* A listen has ended with the transcript timeout on a session that had lost
\* its connection and used up its reconnect attempts.
C10_TimedOutWithoutStt ==
    \E t \in DOMAIN tasks :
        /\ tasks[t].result = "transcript_timeout"
        /\ ~stt[tasks[t].callId].connected
        /\ stt[tasks[t].callId].reconnectAttempts = maxReconnectAttempts

\* C11: waitForConnection returns only when the call's media socket is open
\* and streamSid is set or streamingReady is true; an initiateCall that
\* leaves the attach wait any other way has failed with the attach timeout.
C11_AttachWaitReturnsWhenAttached ==
    [][ \A t \in 1..MaxObjects :
          (/\ t \in DOMAIN tasks
           /\ tasks[t].pc = "attach"
           /\ tasks'[t].pc # "attach") =>
              LET st == state[tasks[t].callId] IN
              IF tasks'[t].pc = "speak"
              THEN /\ st.ws # Null
                   /\ sockets[st.ws].open
                   /\ (st.streamSid # Null \/ st.streamingReady)
              ELSE /\ tasks'[t].pc = "done"
                   /\ tasks'[t].result = "attach_timeout" ]_vars

\* An initiateCall is past its attach wait on a call that attached through
\* the streaming.started webhook, with no streamSid.
C11_AttachedByStreamingStarted ==
    \E t \in DOMAIN tasks :
        /\ tasks[t].kind = "initiate"
        /\ tasks[t].pc = "speak"
        /\ state[tasks[t].callId].streamSid = Null
        /\ state[tasks[t].callId].streamingReady

\* C12: a JSON webhook whose signature does not verify, with a public key
\* configured, is answered with 401, does not call startStreaming, and
\* changes no index, call state, socket, session or operation.
C12_BadSignatureChangesNothing ==
    /\ [](telnyxPublicKey =>
            /\ PhoneWebhookJsonStatus(FALSE) = 401
            /\ \A eventType \in TelnyxEventTypes :
                   ~StartStreamingInvoked(eventType, FALSE))
    /\ [][ \A p \in 1..(MaxObjects + 1), eventType \in TelnyxEventTypes :
             (telnyxPublicKey /\ PhoneWebhookJson(p, eventType, FALSE)) =>
                 UNCHANGED << activeCalls, callControlIdToCallId,
                              wsTokenToCallId, state, stt, sockets, tasks,
                              hangupRequests >> ]_vars

\* A call is up with its index entry, an open socket, not hung up and not
\* yet streaming-ready, so that a call.hangup or streaming.started webhook
\* that verifies would change it, and one that does not verify gets 401.
C12_WebhookWouldChangeCall ==
    /\ telnyxPublicKey
    /\ PhoneWebhookJsonStatus(FALSE) = 401
    /\ \E p \in DOMAIN callControlIdToCallId :
           LET c == callControlIdToCallId[p] IN
           /\ IsActive(c)
           /\ WsOpen(state[c])
           /\ ~state[c].hungUp
           /\ ~state[c].streamingReady

\* Operation t ends in this step with `result`.
EndsWith(t, result) ==
    /\ tasks[t].result = "pending"
    /\ tasks'[t].result = result

StartsListening(t) ==
    /\ t \notin stt[tasks[t].callId].timers
    /\ t \in stt'[tasks[t].callId].timers

\* C14: a continueCall speaks once and then listens once: it starts in
\* speak, goes from speak to listen (registering its one waiter in that very
\* step) or fails in speak, and returns a reply only from listen. An endCall
\* speaks once and never listens: it goes from speak to the hangup and the
\* cleanup and never registers a waiter.
C14_OneSpeakThenOneListen ==
    [][ \A t \in 1..MaxObjects :
          IF t \in DOMAIN tasks' /\ t \notin DOMAIN tasks
          THEN tasks'[t].kind \in {"continue", "end"} =>
                   \/ tasks'[t].pc = "speak"
                   \/ tasks'[t].pc = "done" /\ tasks'[t].result = "not_found"
          ELSE t \in DOMAIN tasks =>
               LET old == tasks[t]
                   new == tasks'[t] IN
               /\ old.kind = "continue" =>
                      /\ << old.pc, new.pc >> \in
                             { << "speak", "speak" >>, << "speak", "listen" >>,
                               << "speak", "done" >>, << "listen", "listen" >>,
                               << "listen", "done" >>, << "done", "done" >> }
                      /\ StartsListening(t) <=>
                             (old.pc = "speak" /\ new.pc = "listen")
                      /\ (old.pc = "speak" /\ new.pc = "done") =>
                             new.result = "tts_failed"
                      /\ EndsWith(t, "ok") => old.pc = "listen"
               /\ old.kind = "end" =>
                      /\ << old.pc, new.pc >> \in
                             { << "speak", "speak" >>, << "speak", "hangup" >>,
                               << "speak", "done" >>, << "hangup", "hangup" >>,
                               << "hangup", "done" >>, << "done", "done" >> }
                      /\ ~StartsListening(t)
                      /\ t \notin stt[old.callId].timers ]_vars

\* On one call a continueCall has returned a reply and an endCall has
\* completed.
C14_TurnAndEndCompleted ==
    \E c \in DOMAIN state :
        /\ Ended(c, {"continue"}, "ok") # {}
        /\ Ended(c, {"end"}, "ok") # {}

\* The first half of C15: the place-call request is sent only for a call
\* whose STT connect has resolved (the call record exists from then on), and
\* an initiateCall whose STT connect failed left no call record in any index.
C15_ConnectedBeforePlaced ==
    \A t \in DOMAIN tasks :
        LET c == tasks[t].callId IN
        tasks[t].kind = "initiate" =>
            /\ tasks[t].pc \in {"place", "attach", "speak", "listen"} =>
                   c \in DOMAIN state
            /\ (\E p \in DOMAIN callControlIdToCallId :
                    callControlIdToCallId[p] = c) => c \in DOMAIN state
            /\ tasks[t].result = "stt_connect_failed" =>
                   c \notin DOMAIN state /\ NoIndexEntry(c)

\* The second half of C15: close() is called on a call's session at most
\* once, and once when the call has left activeCalls.
C15_ClosedExactlyOnce ==
    \A c \in DOMAIN state :
        /\ stt[c].closeCalls <= 1
        /\ ~IsActive(c) => stt[c].closeCalls = 1

\* C15 as stated: the STT session is connected before the call is placed, a
\* failed STT connect leaves no call record, and over the life of a call
\* its STT session is closed exactly once.
C15_SttConnectedFirstClosedOnce ==
    C15_ConnectedBeforePlaced /\ C15_ClosedExactlyOnce

\* C16 as stated: a call's streamSid is set at most once. Once a 'start'
\* frame has set it, no later step changes it.
C16_StreamSidSetOnce ==
    [][ \A c \in DOMAIN state :
          state[c].streamSid # Null =>
              state'[c].streamSid = state[c].streamSid ]_vars

\* C17: once close() has been called on a session the session stays closed
\* and never connects again: it is never connected, no reconnect attempt is
\* counted, and attemptReconnect neither enters its backoff delay nor
\* doConnect, whether close() came during the backoff delay, during
\* doConnect or before the websocket's own 'close' event. A further close()
\* changes nothing in the session but the count of the calls.
C17_CloseSuppressesReconnect ==
    [][ \A c \in DOMAIN stt :
          stt[c].closed =>
              /\ stt'[c].closed
              /\ ~stt'[c].connected
              /\ stt'[c].reconnectAttempts = stt[c].reconnectAttempts
              /\ stt'[c].reconnect \in {stt[c].reconnect, "idle"}
              /\ stt'[c].closeCalls # stt[c].closeCalls =>
                     stt'[c] = [stt[c] EXCEPT !.closeCalls = @ + 1] ]_vars

\* close() was called twice on a session whose reconnect sleeps in its
\* backoff delay.
C17_ClosedTwiceDuringBackoff ==
    \E c \in DOMAIN stt :
        /\ stt[c].closed
        /\ stt[c].closeCalls = 2
        /\ stt[c].reconnect = "backoff"

\* C18: reconnectAttempts never exceeds 5 and is 0 while the session is
\* connected; a reconnect sleeping in its backoff delay is attempt k of 1..5
\* and sleeps 1000 * 2^(k-1) ms. The count changes only by a reconnect
\* attempt of an unclosed session (by one, to at most 5, entering the backoff
\* delay) or by a successful connection (to 0); a connection that drops before
\* close() always starts an attempt, and after the fifth consecutive failure
\* no attempt is started.
C18_BackoffBoundedAttempts ==
    /\ [](\A c \in DOMAIN stt :
            /\ stt[c].reconnectAttempts <= 5
            /\ stt[c].connected => stt[c].reconnectAttempts = 0
            /\ stt[c].reconnect = "backoff" =>
                   /\ stt[c].reconnectAttempts \in 1..5
                   /\ stt[c].delay =
                          CASE stt[c].reconnectAttempts = 1 -> 1000
                            [] stt[c].reconnectAttempts = 2 -> 2000
                            [] stt[c].reconnectAttempts = 3 -> 4000
                            [] stt[c].reconnectAttempts = 4 -> 8000
                            [] stt[c].reconnectAttempts = 5 -> 16000)
    /\ [][ \A c \in DOMAIN stt :
             LET old == stt[c]
                 new == stt'[c] IN
             /\ new.reconnectAttempts # old.reconnectAttempts =>
                    \/ /\ new.reconnectAttempts = old.reconnectAttempts + 1
                       /\ ~old.closed
                       /\ old.reconnect # "backoff"
                       /\ new.reconnect = "backoff"
                    \/ /\ new.reconnectAttempts = 0
                       /\ new.connected
             /\ (old.reconnect # "backoff" /\ new.reconnect = "backoff") =>
                    new.reconnectAttempts = old.reconnectAttempts + 1
             /\ (old.connected /\ ~new.connected /\ ~new.closed) =>
                    new.reconnect = "backoff" /\ new.reconnectAttempts = 1
             /\ (old.reconnectAttempts = 5 /\ ~old.connected) =>
                    new.reconnect \in {old.reconnect, "idle", "connecting"}
           ]_vars

\* An unclosed session of a call has given up after its fifth consecutive
\* failed reconnect attempt.
C18_GaveUpAfterFiveAttempts ==
    \E c \in DOMAIN state :
        /\ ~stt[c].closed
        /\ ~stt[c].connected
        /\ stt[c].reconnect = "idle"
        /\ stt[c].reconnectAttempts = 5

\* C19: a step of a session's connection (the drop of its websocket, the
\* reconnect's delay, its doConnect, its success or failure) leaves every
\* pending waitForTranscript as it is: the registered callback, the pending
\* timers and the operations waiting are unchanged, so no waiter is resolved
\* or rejected by it. The first final transcript on the session, once it is
\* connected again, resolves the registered waiter: its listen ends with the
\* transcript (or with the hang-up error if the call was hung up meanwhile).
C19_WaiterSurvivesReconnect ==
    [][ \A c \in DOMAIN stt :
          LET old == stt[c]
              new == stt'[c]
              w == old.onTranscriptCallback IN
          /\ ( /\ new.closeCalls = old.closeCalls
               /\ c \in DOMAIN state
               /\ \/ old.connected /\ ~new.connected
                  \/ new.reconnect # old.reconnect
                  \/ new.reconnectAttempts # old.reconnectAttempts )
             => /\ new.onTranscriptCallback = old.onTranscriptCallback
                /\ new.timers = old.timers
                /\ \A t \in old.timers : tasks'[t] = tasks[t]
          /\ (TranscriptCompleted(c) /\ tasks[w].pc = "listen")
             => /\ old.connected
                /\ tasks'[w].pc = "done"
                /\ tasks'[w].result \in {"ok", "hung_up"}
                /\ w \notin new.timers ]_vars

\* An operation is listening, its waiter registered, while the session has
\* lost its connection and is in the doConnect of a reconnect.
C19_WaiterPendingDuringReconnect ==
    \E t \in DOMAIN tasks :
        LET s == stt[tasks[t].callId] IN
        /\ tasks[t].pc = "listen"
        /\ s.onTranscriptCallback = t
        /\ t \in s.timers
        /\ ~s.connected
        /\ s.reconnect = "connecting"

\* Operation w has called waitForTranscript and its promise is pending: its
\* timer is.
WaiterPending(w) ==
    /\ w \in DOMAIN tasks
    /\ w \in stt[tasks[w].callId].timers

\* C20: a waiter is single-shot. The callback slot of a session only ever
\* holds a pending waiter, so a settled one consumes no later transcript. A
\* waiter becomes pending only when its operation starts to listen; the step
\* that settles it clears the slot and ends its listen if that still waits,
\* with the transcript only if the waiter was the registered one on a
\* connected session, else with the timeout; once settled it is never
\* pending again. Every pending waiter is settled in the end.
C20_WaiterSettlesOnce ==
    /\ [](\A c \in DOMAIN stt :
            /\ stt[c].onTranscriptCallback # Null =>
                   stt[c].onTranscriptCallback \in stt[c].timers
            /\ \A w \in stt[c].timers : tasks[w].pc \in {"listen", "done"})
    /\ [](\A t \in DOMAIN tasks : tasks[t].pc = "listen" => WaiterPending(t))
    /\ [][ \A w \in DOMAIN tasks :
             LET c == tasks[w].callId IN
             /\ (~WaiterPending(w) /\ WaiterPending(w)') =>
                    tasks[w].pc = "speak" /\ tasks'[w].pc = "listen"
             /\ (WaiterPending(w) /\ ~WaiterPending(w)') =>
                    /\ stt'[c].onTranscriptCallback = Null
                    /\ tasks'[w].pc = "done"
                    /\ tasks[w].pc = "listen" =>
                           \/ /\ tasks'[w].result \in {"ok", "hung_up"}
                              /\ stt[c].onTranscriptCallback = w
                              /\ stt[c].connected
                           \/ tasks'[w].result = "transcript_timeout"
                    /\ tasks[w].pc = "done" => tasks'[w] = tasks[w] ]_vars
    /\ \A w \in 1..ListenObjects : WaiterPending(w) ~> ~WaiterPending(w)

\* A listen that started before the hang-up has ended with the hang-up error
\* and its waiter is settled: the slot is clear on a connected session.
C20_AbandonedWaiterSettled ==
    \E w \in DOMAIN tasks :
        LET s == stt[tasks[w].callId] IN
        /\ tasks[w].kind = "continue"
        /\ tasks[w].result = "hung_up"
        /\ ~tasks[w].hungUpBefore
        /\ ~WaiterPending(w)
        /\ s.onTranscriptCallback = Null
        /\ s.connected

\* At most one health-check interval or one attemptReconnect of the tunnel
\* runs at a time, which is what the single `reconnect` position relies on.
NgrokOneChain ==
    /\ ngrok.monitors <= 1
    /\ ngrok.monitors = 1 => ngrok.reconnect = "idle"

\* C21 as stated: once stopNgrok() has been called (and startNgrok is not in
\* flight or called again) no new tunnel is started: no ngrok.forward is
\* begun, and a listener and a currentUrl that are null stay null, also when
\* a health check was pending, a reconnect was in its backoff delay or a
\* reconnect was in flight.
C21_StopSuppressesReconnect ==
    [][ (ngrok.intentionallyClosed /\ ngrok'.intentionallyClosed
           /\ ngrok.start = "idle")
        => /\ ngrok.listener = "null" => ngrok'.listener = "null"
           /\ ngrok.currentUrl = Null => ngrok'.currentUrl = Null
           /\ ngrok'.reconnect = "forward" => ngrok.reconnect = "forward"
           /\ ngrok'.reconnect = "backoff" => ngrok.reconnect = "backoff" ]_vars

\* C22: the tunnel's reconnectAttempts never exceeds 10; a reconnect in its
\* backoff delay is attempt k of 1..10 and sleeps 2000 * 2^(k-1) ms. The
\* count changes only by a new attempt (by one, entering the delay) or by
\* an established tunnel (to 0), and with the count at 10 no attempt starts.
C22_TunnelAttemptsCapped ==
    /\ [](/\ ngrok.reconnectAttempts <= 10
          /\ ngrok.reconnect = "backoff" =>
                 /\ ngrok.reconnectAttempts \in 1..10
                 /\ \E k \in 1..10 :
                        /\ ngrok.reconnectAttempts = k
                        /\ ngrok.delay = 2000 * 2 ^ (k - 1))
    /\ [][ /\ ngrok'.reconnectAttempts # ngrok.reconnectAttempts =>
                 \/ /\ ngrok'.reconnectAttempts = ngrok.reconnectAttempts + 1
                    /\ ngrok.reconnect # "backoff"
                    /\ ngrok'.reconnect = "backoff"
                 \/ /\ ngrok'.reconnectAttempts = 0
                    /\ ngrok'.listener = "up"
                    /\ ngrok'.reconnect = "idle"
           /\ (ngrok.reconnect # "backoff" /\ ngrok'.reconnect = "backoff") =>
                 /\ ngrok'.reconnectAttempts = ngrok.reconnectAttempts + 1
                 /\ ngrok.reconnectAttempts < 10
           /\ (ngrok.reconnect = "forward" /\ ngrok'.reconnect = "idle"
                 /\ ngrok'.listener # "up") =>
                 ngrok.intentionallyClosed \/ ngrok.reconnectAttempts = 10
         ]_vars

\* The tunnel has given up: ten consecutive attempts failed and, with the
\* tunnel not stopped, no attempt and no health check is running.
C22_TunnelGaveUp ==
    /\ ~ngrok.intentionallyClosed
    /\ ngrok.reconnectAttempts = 10
    /\ ngrok.reconnect = "idle"
    /\ ngrok.monitors = 0
    /\ ngrok.listener # "up"

\* C23 as stated: after a successful reconnect of the tunnel the URL-changed
\* warning was logged if and only if the new url differs from the url the
\* tunnel had before.
C23_UrlChangeWarned ==
    (ngrok.lastReconnect # << >> /\ ngrok.lastReconnect[1] # Null) =>
        (ngrok.lastReconnect[3] <=>
            ngrok.lastReconnect[2] # ngrok.lastReconnect[1])

\* After this step call c is marked hung up and has no open media socket.
HungUpAndSocketClosedNext(c) ==
    /\ state'[c].hungUp
    /\ state'[c].ws # Null => ~sockets'[state'[c].ws].open

C25_StreamUrlCarriesToken ==
    \A t \in DOMAIN tasks :
        LET c == tasks[t].callId IN
        ( /\ tasks[t].kind = "initiate"
          /\ tasks[t].pc \in {"place", "attach", "speak", "listen"}
          /\ ProviderCallId(c) \in WebhookCallIds
          /\ tasks[t].pc = "place"
                 \/ ProviderCallId(c) \in DOMAIN callControlIdToCallId )
        => StreamUrlToken(ProviderCallId(c)) = state[c].wsToken

\* C26 as stated: every step that observes the end of an active call leaves
\* its hungUp true: a terminal provider event, a 'stop' frame on a media
\* socket of the call, the close of the call's media socket, and the
\* cleanup of an endCall.
C26_EveryTerminationSetsHungUp ==
    [][ \A c \in DOMAIN state :
          IsActive(c) =>
              /\ \A p \in DOMAIN callControlIdToCallId :
                     (callControlIdToCallId[p] = c /\ TerminalEvent(p)) =>
                         state'[c].hungUp
              /\ \A s \in DOMAIN sockets :
                     /\ (sockets[s].callId = c /\ MediaStop(s)) =>
                            state'[c].hungUp
                     /\ (state[c].ws = s /\ MediaSocketClosed(s)) =>
                            state'[c].hungUp
              /\ \A t \in DOMAIN tasks :
                     ( /\ tasks[t].kind = "end"
                       /\ tasks[t].callId = c
                       /\ EndsWith(t, "ok") ) => state'[c].hungUp ]_vars

\* C27 as stated: when speak() of a continueCall, speakOnly or endCall
\* returns without raising while the call's media socket is closed or not
\* attached, it has set the call's hungUp.
C27_SpeakOnClosedSocketSetsHungUp ==
    [][ \A t \in DOMAIN tasks :
          LET c == tasks[t].callId IN
          ( /\ tasks[t].kind \in {"continue", "speakOnly", "end"}
            /\ tasks[t].pc = "speak"
            /\ tasks'[t].pc # "speak"
            /\ tasks'[t].result # "tts_failed"
            /\ ~WsOpen(state[c]) )
          => state'[c].hungUp ]_vars

\* C28: sttSession.sendAudio is called only for a message that starts with
\* "{", parses as JSON, has event 'media' and whose media.track is 'inbound'
\* or 'inbound_track'; a binary or empty message, a control frame and a
\* media frame of another track or without track are never forwarded.
C28_OnlyInboundAudioForwarded ==
    (probe # NoProbe /\ probe.handled /\ probe.sendAudio) =>
        /\ probe.frame.first = "{"
        /\ probe.frame.parses
        /\ probe.frame.event = "media"
        /\ probe.frame.track \in {"inbound", "inbound_track"}

\* A JSON media frame of the outbound track with a payload was handled and
\* not forwarded.
C28_OutboundFrameNotForwarded ==
    /\ probe # NoProbe
    /\ probe.handled
    /\ ~probe.sendAudio
    /\ probe.frame.first = "{"
    /\ probe.frame.parses
    /\ probe.frame.event = "media"
    /\ probe.frame.payload = "data"
    /\ probe.frame.track = "outbound"

C30_HangupBestEffort ==
    [][ \A t \in DOMAIN tasks :
          LET c == tasks[t].callId IN
          ( /\ tasks[t].kind = "end"
            /\ tasks[t].pc = "hangup"
            /\ tasks'[t].pc = "done" )
          => /\ tasks'[t].result = "ok"
             /\ stt'[c].closed
             /\ state'[c].ws # Null => ~sockets'[state'[c].ws].open
             /\ NoIndexEntry(c)' ]_vars

\* The frames a speak operation has sent are, one after the other, the
\* leading bytes of `audio`.
SentIsPrefixOf(audio) ==
    LET bytes == ConcatBuffers(probe.sent)
    IN  /\ Len(bytes) <= Len(audio)
        /\ bytes = SubSeq(audio, 1, Len(bytes))

\* C31: for any TTS stream and any split of it into chunks, also at
\* boundaries that are no multiple of 6 or of 2 bytes, the payloads the
\* streaming speak path has sent on an open socket are, in the order of
\* generation, the output of the non-streaming path on the concatenated PCM
\* (every third 16-bit sample, mu-law encoded): while the stream runs they
\* are its leading whole frames, and once the stream has ended they are
\* exactly the frames sendAudio generates.
C31_StreamingEqualsBuffered ==
    (probe.path = "stream" /\ probe.wsOpen) =>
        LET audio == pcmToMuLaw(resample24kTo8k(probe.pcm))
        IN  /\ SentIsPrefixOf(audio)
            /\ ~probe.done =>
                   /\ Len(ConcatBuffers(probe.sent))
                          + Len(probe.pendingMuLaw) = Len(audio)
                   /\ Len(probe.pendingMuLaw) < OUTPUT_CHUNK_SIZE
            /\ probe.done => probe.sent = sendAudioFrames(probe.pcm)

\* C31 witness: a stream split in the middle of a sample and in the middle
\* of a unit has ended after more than one frame was sent.
C31_StreamSplitInsideSample ==
    /\ probe.path = "stream"
    /\ probe.wsOpen
    /\ probe.done
    /\ Len(probe.sent) >= 2
    /\ Len(probe.chunks) >= 2
    /\ probe.chunks[1] % 2 = 1
    /\ (probe.chunks[1] + probe.chunks[2]) % 6 # 0

\* C32: in a speak operation on an open socket (streaming or not), every
\* frame sent except possibly the last carries exactly 160 bytes of mu-law
\* audio, the last one carries between 1 and 160 bytes, and once the
\* operation has sent everything the number of audio bytes sent is
\* floor(n / 6) for n bytes of PCM.
C32_FrameSizes ==
    probe.wsOpen =>
        /\ \A i \in DOMAIN probe.sent :
               /\ Len(probe.sent[i]) >= 1
               /\ Len(probe.sent[i]) <= OUTPUT_CHUNK_SIZE
               /\ i < Len(probe.sent) =>
                      Len(probe.sent[i]) = OUTPUT_CHUNK_SIZE
        /\ ~probe.done =>
               \A i \in DOMAIN probe.sent :
                   Len(probe.sent[i]) = OUTPUT_CHUNK_SIZE
        /\ probe.done =>
               Len(ConcatBuffers(probe.sent))
                   = Len(probe.pcm) \div SAMPLES_PER_RESAMPLE

\* C32 witness: a streaming operation has ended with whole frames followed
\* by a shorter last frame, for PCM that is no whole number of units.
C32_PartialLastFrameFlushed ==
    /\ probe.path = "stream"
    /\ probe.wsOpen
    /\ probe.done
    /\ Len(probe.sent) >= 3
    /\ Len(probe.sent[Len(probe.sent)]) < OUTPUT_CHUNK_SIZE
    /\ Len(probe.pcm) % SAMPLES_PER_RESAMPLE # 0

\* The initiateCall operations.
InitiateTasks == { t \in DOMAIN tasks : tasks[t].kind = "initiate" }

\* C33: in initiateCall the synthesis of the initial message starts when
\* the outbound call has been placed, not before, so that it runs during
\* the attach wait; no frame of the message is sent (or dropped) before the
\* attach wait has returned; listen starts only when the synthesized audio
\* is there and the loop of sendPreGeneratedAudio has gone through all of
\* its frames; and after an attach timeout no frame is ever sent.
C33_PregeneratedAudioOrdered ==
    /\ [](\A t \in InitiateTasks :
            LET audio == probe[tasks[t].callId] IN
            /\ audio.tts = "idle" <=>
                   \/ tasks[t].pc \in {"connect", "place"}
                   \/ tasks[t].result \in {"stt_connect_failed",
                                           "provider_error"}
            /\ tasks[t].pc = "attach" => audio.tts # "idle"
            /\ audio.sent + audio.skipped > 0 =>
                   /\ tasks[t].pc \in {"speak", "listen", "done"}
                   /\ tasks[t].result # "attach_timeout"
            /\ tasks[t].result = "attach_timeout" =>
                   audio.sent = 0 /\ audio.skipped = 0
            /\ tasks[t].pc = "listen" =>
                   /\ audio.tts = "ready"
                   /\ audio.sent + audio.skipped = audio.frames)
    /\ [](\A c \in DOMAIN probe :
            c > currentCallId => probe[c] = NewPregenerated)
    /\ [][ \A t \in InitiateTasks :
             LET c == tasks[t].callId IN
             probe'[c].sent + probe'[c].skipped
                 # probe[c].sent + probe[c].skipped =>
                     /\ tasks[t].pc = "speak"
                     /\ tasks'[t].pc = "speak"
                     /\ probe[c].tts = "ready" ]_vars

\* C33 witness: an initiateCall listens after all the frames of its
\* message went to the socket.
C33_ListeningAfterAllFrames ==
    \E t \in InitiateTasks :
        /\ tasks[t].pc = "listen"
        /\ probe[tasks[t].callId].frames = MaxFrames
        /\ probe[tasks[t].callId].sent = MaxFrames

\* C34: shutdown() ends every active call, and the HTTP and websocket
\* servers are closed only after those end operations: whenever the
\* servers are closed, every endCall that shutdown() invoked has completed,
\* with its call out of activeCalls, the call's STT session closed and,
\* for a call with a callControlId, the provider hangup issued.
C34_ServersClosedAfterCallsEnded ==
    servers.httpServer = "closed" =>
        \A t \in servers.goodbyes :
            LET c == tasks[t].callId IN
            /\ tasks[t].result = "ok"
            /\ ~IsActive(c)
            /\ stt[c].closed
            /\ state[c].callControlId # Null => hangupRequests[c] > 0

\* C35: listen never returns a transcript for a call whose hungUp flag is
\* set when the race of listen settles: a listen that ends while hungUp is
\* set does not end with a reply and leaves the conversation history as it
\* was, and when it is the transcript that settles the race, listen throws
\* the hung-up error.
C35_NoTranscriptAfterHangup ==
    [][ \A t \in DOMAIN tasks :
          LET c == tasks[t].callId IN
          (/\ tasks[t].kind \in {"initiate", "continue"}
           /\ tasks[t].pc = "listen"
           /\ tasks'[t].pc = "done"
           /\ state[c].hungUp) =>
              /\ tasks'[t].result # "ok"
              /\ state'[c].conversationHistory
                     = state[c].conversationHistory
              /\ (TranscriptCompleted(c) /\
                      stt[c].onTranscriptCallback = t) =>
                     tasks'[t].result = "hung_up" ]_vars

\* C35 witness: a listen whose call was not hung up when it started has
\* thrown the hung-up error, with its waiter settled and its timer cleared:
\* the transcript resolved after the hang-up and before the next poll.
C35_HungUpListenSettledByTranscript ==
    \E t \in DOMAIN tasks :
        /\ tasks[t].kind \in {"initiate", "continue"}
        /\ tasks[t].result = "hung_up"
        /\ ~tasks[t].hungUpBefore
        /\ stt[tasks[t].callId].onTranscriptCallback = Null
        /\ t \notin stt[tasks[t].callId].timers
        /\ ~stt[tasks[t].callId].closed

\* C36: the timeout timer of an earlier waitForTranscript never disturbs a
\* later one on the same session: when the timer of waiter w fires while
\* the callback of another waiter, whose listen is still pending, is
\* registered, that callback stays registered.
C36_EarlierTimerSparesLaterWaiter ==
    [][ \A w \in DOMAIN tasks :
          LET c == tasks[w].callId
              later == stt[c].onTranscriptCallback IN
          (/\ TranscriptTimerFired(w)
           /\ later # Null
           /\ later # w
           /\ tasks[later].pc = "listen") =>
              stt'[c].onTranscriptCallback = later ]_vars

\* C37: a final transcript that completes while no waitForTranscript is
\* pending on the session is discarded, not queued: the event changes
\* nothing of the session, of the calls or of the operations, and a listen
\* ends with a reply only in the step of a 'completed' event that found the
\* callback of that listen registered, so only for an event that arrived
\* after the listen had registered its waiter.
C37_UnheardTranscriptDiscarded ==
    /\ [][ probe' # probe =>
               /\ stt' = stt
               /\ state' = state
               /\ tasks' = tasks ]_vars
    /\ [][ \A t \in DOMAIN tasks' :
             (/\ tasks'[t].kind \in {"initiate", "continue"}
              /\ tasks'[t].result = "ok"
              /\ (t \notin DOMAIN tasks \/ tasks[t].result # "ok")) =>
                 /\ t \in DOMAIN tasks
                 /\ tasks[t].pc = "listen"
                 /\ stt[tasks[t].callId].onTranscriptCallback = t
                 /\ TranscriptCompleted(tasks[t].callId)
                 /\ probe' = probe ]_vars

\* C37 witness: a transcript completed while nobody waited (the first turn
\* was over and the next had not begun to listen), and a later listen got
\* its reply.
C37_ReplyAfterDiscardedTranscript ==
    \E t \in DOMAIN tasks :
        /\ tasks[t].kind = "continue"
        /\ tasks[t].result = "ok"
        /\ probe[tasks[t].callId].unheard > 0

\* The waitForMessage calls that returned message n.
ReturnedBy(n) ==
    { k \in DOMAIN probe.waits : /\ probe.waits[k].status = "resolved"
                                 /\ probe.waits[k].message = n }

\* The positions of messageQueue that hold message n.
QueuedAt(n) ==
    { i \in DOMAIN probe.messageQueue : probe.messageQueue[i] = n }

\* C38: in a text provider that has not been shut down no incoming message
\* is lost: every message passed to handleIncomingMessage has been returned
\* by exactly one waitForMessage call, or is in messageQueue once, in
\* arrival order; and a waitForMessage that timed out has left no waiter in
\* messageWaiters.
C38_NoMessageLost ==
    ~probe.stopped =>
        /\ \A n \in DOMAIN probe.texts :
               \/ Cardinality(ReturnedBy(n)) = 1 /\ QueuedAt(n) = {}
               \/ ReturnedBy(n) = {} /\ Cardinality(QueuedAt(n)) = 1
        /\ \A i, j \in DOMAIN probe.messageQueue :
               i < j => probe.messageQueue[i] < probe.messageQueue[j]
        /\ \A i \in DOMAIN probe.messageWaiters :
               probe.waits[probe.messageWaiters[i].of].status = "pending"

\* C39: in every reachable state of a text provider messageQueue and
\* messageWaiters are never both non-empty, whatever the message texts,
\* the empty string included.
C39_QueueOrWaitersEmpty ==
    probe.messageQueue = << >> \/ probe.messageWaiters = << >>

\* C40: after IMessageProvider.shutdown() no watch process is running and
\* none is started again, also when shutdown() is called during the restart
\* delay that follows an unexpected exit of the watch process.
C40_NoWatchAfterShutdown ==
    probe.stopped =>
        /\ probe.watchProcess = Null
        /\ \A pid \in DOMAIN probe.processes :
               probe.processes[pid] # "running"

====
